---- MODULE Spec2Model ----
(***************************************************************************)
(* Model of the script execution engine of pytask-manager:                 *)
(*   backend/api/routes.py   execute_script, _execute_script               *)
(*   backend/scheduler.py    SchedulerService                              *)
(*   backend/script_manager.py  ScriptManager.execute                      *)
(*   backend/main.py         lifespan                                      *)
(*                                                                         *)
(* One step of the model is one committed database transaction or one      *)
(* synchronous stretch of a coroutine between two awaits.  The HTTP        *)
(* server is uvicorn as started by run.py: requests are served only after  *)
(* the lifespan start-up has returned, and the lifespan shutdown runs only *)
(* after every request and its background tasks have finished.             *)
(*                                                                         *)
(* Spec follows the executions table, the coroutines and the scheduler.    *)
(* SpecOutput follows one run through its output file, the strings its     *)
(* coordinator collects and the websocket subscribers of its output:       *)
(*   backend/script_manager.py  ScriptManager.execute, read_output, cleanup*)
(*   backend/api/routes.py   websocket_endpoint, execution_output          *)
(* Text is a sequence of tokens; the token NL is the newline character.    *)
(* SpecCatalog follows the catalog requests, the database tables they      *)
(* write and the job table of the scheduler across server restarts:        *)
(*   backend/api/routes.py   create_script, update_script, delete_script,  *)
(*                           create_schedule, update_schedule,             *)
(*                           delete_schedule                               *)
(*   backend/scheduler.py    start, add_job, remove_job                    *)
(*   migrations/versions/add_cascade_delete_to_foreign_keys.py             *)
(* SpecFair is Spec under an event loop that keeps running every coroutine *)
(* that can take a step.                                                   *)
(* SpecStreams follows the two pipes of one child process and the readers  *)
(* that copy them into the output file:                                    *)
(*   backend/script_manager.py  _stream_generator, ScriptManager.execute   *)
(* SpecManifest follows the requirement lines and the installed versions   *)
(* of the two provisioners, SpecInstall the files of an installation and   *)
(* the websocket that tails them:                                          *)
(*   backend/script_manager.py  setup_environment, _run_pip, cleanup       *)
(*   backend/api/routes.py   install_dependencies,                         *)
(*                           _install_dependencies_task,                   *)
(*                           dependency_websocket_endpoint                 *)
(***************************************************************************)
EXTENDS Integers, Sequences, FiniteSets, TLC

\* ---------------------------------------------------------------- bounds
MaxExec == 2
MaxPrior == 1
MaxRejected == 1
\* lines the child prints in SpecOutput
MaxLines == 1

Scripts == {1}
Schedules == {1, 2}
ExitCodes == {0, 2}
\* settings.max_execution_time, in seconds
MaxExecutionTime == 300
NoExit == -1
NoSchedule == 0

\* schedules.script_id: the script a schedule row belongs to
ScriptOf(sch) == 1

VARIABLES
    startPc,            \* position of SchedulerService.start() in StartSteps
    phase,              \* "starting", "up", "marked" (stop() has marked), "down"
    schedulerRunning,   \* AsyncIOScheduler started and not shut down
    executions,         \* the executions table, indexed by execution id
    task,               \* per execution: the coroutine that runs it
    active_executions,  \* SchedulerService._active_executions (ids)
    jobs,               \* per schedule: callable of its scheduler job
    active,             \* scripts.is_active
    uninstalled,        \* ScriptManager.has_uninstalled_dependencies()
    rejected,           \* run requests answered without an Execution row
    output_file,        \* output_<execution_id>.txt of the run SpecOutput follows
    output_lines,       \* the strings its coordinator collected from execute()
    log_output,         \* executions.log_output of that run
    readers,            \* per subscriber: its websocket handler and read_output
    scripts,            \* the scripts table with each row's tags and dependencies
    schedules,          \* the schedules table
    tags,               \* the tags table (names)
    venvs,              \* scripts whose runtime directory holds a virtualenv
    response,           \* the answer to the last catalog request
    requirements,       \* requirements.txt of the script SpecInstall follows
    site_packages,      \* the packages "pip list" reports for its virtualenv
    dependencies,       \* the Dependency objects last passed to setup_environment
    files,              \* the files that were ever created as pip_output.txt
    pip_output,         \* the file the name pip_output.txt leads to, or NoInode
    markers,            \* whether pip_finished and pip_success exist
    installs,           \* the runs of _install_dependencies_task
    tail,               \* a client of dependency_websocket_endpoint
    printed,            \* per stream: the lines the child of SpecStreams has printed
    pipes               \* per stream: the printed lines no stream handler has read

\* the variables of the output path; Spec does not follow them
outVars == <<output_file, output_lines, log_output, readers>>

\* the variables of the catalog; only SpecCatalog follows them
catVars == <<scripts, schedules, tags, venvs, response>>

\* the variables of the provisioner; SpecManifest and SpecInstall follow them
insVars == <<requirements, site_packages, dependencies, files, pip_output, markers,
             installs, tail>>

\* the pipes of the child process; only SpecStreams follows them
strVars == <<printed, pipes>>

vars == <<startPc, phase, schedulerRunning, executions, task,
          active_executions, jobs, active, uninstalled, rejected, outVars,
          catVars, insVars, strVars>>

\* ------------------------------------------------------- error messages
Err(m) == [msg |-> m, arg |-> 0]
NoError == Err("")
ErrRestart == Err("Execution interrupted by server restart")
ErrShutdown == Err("Execution interrupted by server shutdown")
ErrInterrupted == Err("Execution interrupted by new execution request")
ErrCancelled == Err("Execution cancelled")
ErrUninstalled == Err("Cannot execute script with uninstalled dependencies")
ErrSetupManual == Err("Failed to set up script environment: <reason>")
ErrSetupScheduled == Err("Failed to install dependencies: <reason>")
ErrExit(n) == [msg |-> "Script exited with return code <n>", arg |-> n]
\* the RuntimeError ScriptManager.execute raises when wait_for times out
ErrTimeout == [msg |-> "Script timed out after <n> seconds", arg |-> MaxExecutionTime]
\* str() of the FileNotFoundError of open(output_file_path, 'r')
ErrNoFile == Err("[Errno 2] No such file or directory: <output file>")

Statuses == {"PENDING", "RUNNING", "SUCCESS", "FAILURE"}
Unterminated == {"PENDING", "RUNNING"}
Terminal == {"SUCCESS", "FAILURE"}

\* Execution(...) constructor: completed_at, error_message default to NULL
NewExecution(s, sch, st) ==
    [script |-> s, schedule |-> sch, status |-> st,
     completed |-> FALSE, error |-> NoError]

\* a coroutine running an execution: its position, the state of the child
\* process it owns ("none", "alive", "gone"), the child's return code and the
\* way the run left ScriptManager ("none" while it has not)
NewTask(k, p) ==
    [kind |-> k, pc |-> p, exit |-> NoExit, child |-> "none", end |-> "none"]

Ids == DOMAIN executions
Live(i) == task[i].pc \notin {"none", "done", "dead"}
Scheduled(i) == task[i].kind \in {"start_job", "runtime_job"}

\* ------------------------------------------------------------- start-up
\* start() with the recovery scan moved behind scheduler.start()
StartSteps_RecoverLast == <<"load_schedules", "scheduler_start", "recover">>

\* the order of the three stages of SchedulerService.start()
StartSteps == <<"recover", "load_schedules", "scheduler_start">>

StartStage == IF startPc <= Len(StartSteps) THEN StartSteps[startPc] ELSE "started"

\* the recovery transaction of start() has committed
RecoveryDone ==
    \E k \in 1..(startPc - 1) : k <= Len(StartSteps) /\ StartSteps[k] = "recover"

AdvanceStart ==
    /\ startPc' = startPc + 1
    /\ phase' = IF startPc = Len(StartSteps) THEN "up" ELSE phase

\* a stale-execution query that looks for RUNNING rows only
StaleExecutions_RunningOnly(ex) == {i \in DOMAIN ex : ex[i].status \in {"RUNNING"}}

\* the stale-execution query of start()
StaleExecutions(ex) == {i \in DOMAIN ex : ex[i].status \in {"RUNNING", "PENDING"}}

MarkStale(e) ==
    [e EXCEPT !.status = "FAILURE", !.completed = TRUE, !.error = ErrRestart]

StartRecover ==
    /\ phase = "starting"
    /\ StartStage = "recover"
    /\ executions' = [i \in DOMAIN executions |->
                        IF i \in StaleExecutions(executions)
                        THEN MarkStale(executions[i]) ELSE executions[i]]
    /\ AdvanceStart
    /\ UNCHANGED <<outVars, catVars, insVars, strVars, schedulerRunning, task, active_executions, jobs, active,
                   uninstalled, rejected>>

StartLoadSchedules ==
    /\ phase = "starting"
    /\ StartStage = "load_schedules"
    /\ jobs' = [sch \in Schedules |->
                  IF active[ScriptOf(sch)] THEN "start" ELSE jobs[sch]]
    /\ AdvanceStart
    /\ UNCHANGED <<outVars, catVars, insVars, strVars, schedulerRunning, executions, task, active_executions,
                   active, uninstalled, rejected>>

StartScheduler ==
    /\ phase = "starting"
    /\ StartStage = "scheduler_start"
    /\ schedulerRunning' = TRUE
    /\ AdvanceStart
    /\ UNCHANGED <<outVars, catVars, insVars, strVars, executions, task, active_executions, jobs, active,
                   uninstalled, rejected>>

\* ---------------------------------------------------- output path: data
Subscribers == {1, 2}
NL == "\n"

\* the output file: whether its name exists, and the text written to it
NoFile == [exists |-> FALSE, content |-> <<>>]

\* executions.log_output: NULL, or a text
NoLog == [set |-> FALSE, text |-> <<>>]

\* the websocket route subscriber r connects to
HandlerOf(r) == IF r = 1 THEN "websocket_endpoint" ELSE "execution_output"

\* a subscriber that has not connected: the locals of read_output
\* (position, last_incomplete_line, is_finished, the lines read and not yet
\* yielded), what it has yielded (got), what the handler has sent, the
\* handler's last_status, whether the run was unterminated when read_output
\* started (live) and how the subscription ended
NewReader ==
    [pc |-> "none", position |-> 0, last_incomplete_line |-> <<>>,
     is_finished |-> FALSE, pending |-> <<>>, got |-> <<>>, sent |-> <<>>,
     last_status |-> "None", live |-> FALSE, end |-> "none"]

\* ----------------------------------------------------------- catalog data
\* bounds of SpecCatalog: rows of scripts, schedules and executions
MaxScripts == 2
MaxSchedules == 2
MaxCatExec == 1

ScriptIds == 1..MaxScripts
ScheduleIds == 1..MaxSchedules
Names == {"a", "b"}

\* an Optional field of a request body: None, or Some(v)
None == <<>>
Some(v) == <<v>>

\* a cron expression is the list of its fields
GoodCron == <<"*", "*", "*", "*", "*">>
BadCron == <<"*", "*">>

\* CronTrigger.from_crontab raises ValueError unless it gets 5 fields
FromCrontab(cron) == Len(cron) = 5

NoRow == [absent |-> TRUE]
Exists(table, id) == table[id] # NoRow
RowIds(table) == {id \in DOMAIN table : Exists(table, id)}

\* INTEGER PRIMARY KEY of SQLite: one more than the largest id in the table
NextId(table) ==
    IF RowIds(table) = {} THEN 1
    ELSE (CHOOSE m \in RowIds(table) : \A id \in RowIds(table) : id <= m) + 1

NoVersion == "NULL"
DepRequest == [package_name |-> "requests", version_spec |-> ">=2"]

NewDependency(d) ==
    [package_name |-> d.package_name, version_spec |-> d.version_spec,
     installed_version |-> NoVersion]

NoResponse == [status |-> 0]

EmptyCatalog ==
    /\ scripts = [id \in ScriptIds |-> NoRow]
    /\ schedules = [sch \in ScheduleIds |-> NoRow]
    /\ tags = {}
    /\ venvs = {}
    /\ response = NoResponse

\* ------------------------------------------------------ provisioner data
NoInode == 0

\* a client that has not connected: its position in the handler, the file it
\* has open, last_position, what it was sent, and the runs of the install
\* task that had started when it connected
NoTail ==
    [pc |-> "none", file |-> NoInode, last_position |-> 0, sent |-> <<>>,
     since |-> 0]

NoInstall ==
    /\ requirements = <<>>
    /\ site_packages = {}
    /\ dependencies = <<>>
    /\ files = <<>>
    /\ pip_output = NoInode
    /\ markers = [pip_finished |-> FALSE, pip_success |-> FALSE]
    /\ installs = <<>>
    /\ tail = NoTail

Streams == {"stdout", "stderr"}

NoStreams ==
    /\ printed = [st \in Streams |-> <<>>]
    /\ pipes = [st \in Streams |-> <<>>]

\* ------------------------------------------------------------------ Init
PriorRows ==
    {[script |-> s, schedule |-> NoSchedule, status |-> st,
      completed |-> (st \in Terminal), error |-> NoError] :
        s \in Scripts, st \in Statuses}

Init ==
    /\ startPc = 1
    /\ phase = "starting"
    /\ schedulerRunning = FALSE
    /\ \E n \in 0..MaxPrior : executions \in [1..n -> PriorRows]
    /\ task = [i \in DOMAIN executions |-> NewTask("prior", "none")]
    /\ active_executions = {}
    /\ jobs = [sch \in Schedules |-> "none"]
    /\ active \in [Scripts -> BOOLEAN]
    /\ uninstalled \in [Scripts -> BOOLEAN]
    /\ rejected = 0
    /\ output_file = NoFile
    /\ output_lines = <<>>
    /\ log_output = NoLog
    /\ readers = [r \in Subscribers |-> NewReader]
    /\ EmptyCatalog
    /\ NoInstall
    /\ NoStreams

\* ------------------------------------------------ manual run (routes)
\* the "running executions of this script" query of execute_script
RunningExecutions(ex, s) ==
    {i \in DOMAIN ex : ex[i].script = s /\ ex[i].status = "RUNNING"}

\* an interruption that forgets completed_at
MarkInterrupted_NoCompletedAt(e) ==
    [e EXCEPT !.status = "FAILURE", !.error = ErrInterrupted]

MarkInterrupted(e) ==
    [e EXCEPT !.status = "FAILURE", !.completed = TRUE, !.error = ErrInterrupted]

\* POST /scripts/{id}/execute up to the commit of the new row: the query, the
\* commit that marks the RUNNING row it found and the commit of the insert
ExecuteScript(s) ==
    /\ phase = "up"
    /\ Len(executions) < MaxExec
    /\ Cardinality(RunningExecutions(executions, s)) <= 1
    /\ executions' =
         Append([i \in DOMAIN executions |->
                   IF i \in RunningExecutions(executions, s)
                   THEN MarkInterrupted(executions[i]) ELSE executions[i]],
                NewExecution(s, NoSchedule, "PENDING"))
    /\ task' = Append(task, NewTask("manual", "handler_setup"))
    /\ UNCHANGED <<outVars, catVars, insVars, strVars, startPc, phase, schedulerRunning, active_executions, jobs,
                   active, uninstalled, rejected>>

\* scalar_one_or_none() raises MultipleResultsFound: HTTP 500, no row
ExecuteScriptRejected(s) ==
    /\ phase = "up"
    /\ rejected < MaxRejected
    /\ Cardinality(RunningExecutions(executions, s)) > 1
    /\ rejected' = rejected + 1
    /\ UNCHANGED <<outVars, catVars, insVars, strVars, startPc, phase, schedulerRunning, executions, task,
                   active_executions, jobs, active, uninstalled>>

\* setup_environment raised: the handler marks its own row
HandlerSetupFail(i) ==
    /\ task[i].kind = "manual" /\ task[i].pc = "handler_setup"
    /\ executions' = [executions EXCEPT ![i].status = "FAILURE",
                                        ![i].completed = TRUE,
                                        ![i].error = ErrSetupManual]
    /\ task' = [task EXCEPT ![i].pc = "done", ![i].end = "setup"]
    /\ UNCHANGED <<outVars, catVars, insVars, strVars, startPc, phase, schedulerRunning, active_executions, jobs,
                   active, uninstalled, rejected>>

\* background _execute_script: "Update execution status to RUNNING"
BgMarkRunning(e) == [e EXCEPT !.status = "RUNNING"]

\* setup_environment returned, the response was sent and the background task
\* committed RUNNING
BgStart(i) ==
    /\ task[i].kind = "manual" /\ task[i].pc = "handler_setup"
    /\ executions' = [executions EXCEPT ![i] = BgMarkRunning(@)]
    /\ task' = [task EXCEPT ![i].pc = "exec"]
    /\ UNCHANGED <<outVars, catVars, insVars, strVars, startPc, phase, schedulerRunning, active_executions, jobs,
                   active, uninstalled, rejected>>

\* an except branch that records the message but leaves the status alone
ManualDepsFail_KeepsStatus(i) ==
    /\ task[i].kind = "manual" /\ task[i].pc = "exec"
    /\ uninstalled[executions[i].script]
    /\ executions' = [executions EXCEPT ![i].completed = TRUE,
                                        ![i].error = ErrUninstalled]
    /\ task' = [task EXCEPT ![i].pc = "done", ![i].end = "deps"]
    /\ UNCHANGED <<outVars, catVars, insVars, strVars, startPc, phase, schedulerRunning, active_executions, jobs,
                   active, uninstalled, rejected>>

\* manager.execute raised on the dependency check: except branch
ManualDepsFail(i) ==
    /\ task[i].kind = "manual" /\ task[i].pc = "exec"
    /\ uninstalled[executions[i].script]
    /\ executions' = [executions EXCEPT ![i].completed = TRUE,
                                        ![i].status = "FAILURE",
                                        ![i].error = ErrUninstalled]
    /\ task' = [task EXCEPT ![i].pc = "done", ![i].end = "deps"]
    /\ UNCHANGED <<outVars, catVars, insVars, strVars, startPc, phase, schedulerRunning, active_executions, jobs,
                   active, uninstalled, rejected>>

\* manager.execute spawned the child process
Spawn(i) ==
    /\ \/ task[i].kind = "manual" /\ task[i].pc = "exec"
       \/ Scheduled(i) /\ task[i].pc = "setup"
    /\ ~uninstalled[executions[i].script]
    /\ task' = [task EXCEPT ![i].pc = "child", ![i].child = "alive"]
    /\ UNCHANGED <<outVars, catVars, insVars, strVars, startPc, phase, schedulerRunning, executions,
                   active_executions, jobs, active, uninstalled, rejected>>

\* the footer lines ScriptManager.execute yields for a return code
FooterCodes(rc) == IF rc # 0 THEN <<rc>> ELSE <<>>

\* the exit code _execute_script parses back from the yielded lines
ParsedExitCode(lines) == IF lines = <<>> THEN 0 ELSE lines[Len(lines)]

\* final update of the execution record by the background task
ManualResult(e, rc) ==
    LET exit_code == ParsedExitCode(FooterCodes(rc)) IN
    IF exit_code # 0
    THEN [e EXCEPT !.completed = TRUE, !.status = "FAILURE",
                   !.error = ErrExit(exit_code)]
    ELSE [e EXCEPT !.completed = TRUE, !.status = "SUCCESS"]

ManualFinish(i, rc) ==
    /\ task[i].kind = "manual" /\ task[i].pc = "child"
    /\ executions' = [executions EXCEPT ![i] = ManualResult(@, rc)]
    /\ task' = [task EXCEPT ![i].pc = "done", ![i].exit = rc,
                             ![i].child = "gone", ![i].end = "exit"]
    /\ UNCHANGED <<outVars, catVars, insVars, strVars, startPc, phase, schedulerRunning, active_executions, jobs,
                   active, uninstalled, rejected>>

\* background _execute_script: the except branch
ManualException(e, err) ==
    [e EXCEPT !.completed = TRUE, !.status = "FAILURE", !.error = err]

\* wait_for(process.wait()) timed out: execute raises, its finally block
\* terminates the child, the except branch records the failure
ManualTimeout(i) ==
    /\ task[i].kind = "manual" /\ task[i].pc = "child"
    /\ executions' = [executions EXCEPT ![i] = ManualException(@, ErrTimeout)]
    /\ task' = [task EXCEPT ![i].pc = "done", ![i].child = "gone",
                             ![i].end = "timeout"]
    /\ UNCHANGED <<outVars, catVars, insVars, strVars, startPc, phase, schedulerRunning, active_executions, jobs,
                   active, uninstalled, rejected>>

\* ------------------------------------------------ scheduled runs
\* APScheduler runs at most one instance of a job at a time (max_instances)
JobInstances(sch) ==
    {i \in Ids : Scheduled(i) /\ executions[i].schedule = sch /\ Live(i)}

\* fire of a job registered by start(): _execute_script up to the insert
FireStartJob(sch) ==
    /\ schedulerRunning
    /\ jobs[sch] = "start"
    /\ JobInstances(sch) = {}
    /\ active[ScriptOf(sch)]
    /\ Len(executions) < MaxExec
    /\ executions' = Append(executions, NewExecution(ScriptOf(sch), sch, "RUNNING"))
    /\ task' = Append(task, NewTask("start_job", "inserted"))
    /\ UNCHANGED <<outVars, catVars, insVars, strVars, startPc, phase, schedulerRunning, active_executions, jobs,
                   active, uninstalled, rejected>>

\* _execute_script: create_task and record it in _active_executions
FireRegister(i) ==
    /\ task[i].kind = "start_job" /\ task[i].pc = "inserted"
    /\ task' = [task EXCEPT ![i].pc = "setup"]
    /\ active_executions' = active_executions \cup {i}
    /\ UNCHANGED <<outVars, catVars, insVars, strVars, startPc, phase, schedulerRunning, executions, jobs, active,
                   uninstalled, rejected>>

\* fire of a job registered by add_job(): _run_script up to the insert
FireRuntimeJob(sch) ==
    /\ schedulerRunning
    /\ jobs[sch] = "runtime"
    /\ JobInstances(sch) = {}
    /\ ~uninstalled[ScriptOf(sch)]
    /\ Len(executions) < MaxExec
    /\ executions' = Append(executions, NewExecution(ScriptOf(sch), sch, "PENDING"))
    /\ task' = Append(task, NewTask("runtime_job", "setup"))
    /\ UNCHANGED <<outVars, catVars, insVars, strVars, startPc, phase, schedulerRunning, active_executions, jobs,
                   active, uninstalled, rejected>>

\* _run_script on a script with uninstalled dependencies
FireRuntimeJobUninstalled(sch) ==
    /\ schedulerRunning
    /\ jobs[sch] = "runtime"
    /\ JobInstances(sch) = {}
    /\ uninstalled[ScriptOf(sch)]
    /\ Len(executions) < MaxExec
    /\ executions' = Append(executions,
                            [NewExecution(ScriptOf(sch), sch, "FAILURE")
                               EXCEPT !.completed = TRUE, !.error = ErrUninstalled])
    /\ task' = Append(task, [NewTask("runtime_job", "done") EXCEPT !.end = "deps"])
    /\ jobs' = [jobs EXCEPT ![sch] = "none"]
    /\ UNCHANGED <<outVars, catVars, insVars, strVars, startPc, phase, schedulerRunning, active_executions,
                   active, uninstalled, rejected>>

\* _run_script_with_output: the except branch
ScheduledFailure(e, err) ==
    [e EXCEPT !.status = "FAILURE", !.completed = TRUE, !.error = err]

\* a success branch that stores completed_at and forgets the status
ScheduledResult_KeepsStatus(e, rc) == [e EXCEPT !.completed = TRUE]

\* _run_script_with_output: "Update execution record with success"
ScheduledResult(e, rc) == [e EXCEPT !.status = "SUCCESS", !.completed = TRUE]

ScheduledSetupFail(i) ==
    /\ Scheduled(i) /\ task[i].pc = "setup"
    /\ executions' = [executions EXCEPT ![i] = ScheduledFailure(@, ErrSetupScheduled)]
    /\ task' = [task EXCEPT ![i].pc = "done", ![i].end = "setup"]
    /\ active_executions' = active_executions \ {i}
    /\ UNCHANGED <<outVars, catVars, insVars, strVars, startPc, phase, schedulerRunning, jobs, active, uninstalled,
                   rejected>>

\* setup_environment returned, manager.execute raised on the dependency check
ScheduledDepsFail(i) ==
    /\ Scheduled(i) /\ task[i].pc = "setup"
    /\ uninstalled[executions[i].script]
    /\ executions' = [executions EXCEPT ![i] = ScheduledFailure(@, ErrUninstalled)]
    /\ task' = [task EXCEPT ![i].pc = "done", ![i].end = "deps"]
    /\ active_executions' = active_executions \ {i}
    /\ UNCHANGED <<outVars, catVars, insVars, strVars, startPc, phase, schedulerRunning, jobs, active, uninstalled,
                   rejected>>

ScheduledFinish(i, rc) ==
    /\ Scheduled(i) /\ task[i].pc = "child"
    /\ executions' = [executions EXCEPT ![i] = ScheduledResult(@, rc)]
    /\ task' = [task EXCEPT ![i].pc = "done", ![i].exit = rc,
                             ![i].child = "gone", ![i].end = "exit"]
    /\ active_executions' = active_executions \ {i}
    /\ UNCHANGED <<outVars, catVars, insVars, strVars, startPc, phase, schedulerRunning, jobs, active, uninstalled,
                   rejected>>

\* the same timeout under _run_script_with_output
ScheduledTimeout(i) ==
    /\ Scheduled(i) /\ task[i].pc = "child"
    /\ executions' = [executions EXCEPT ![i] = ScheduledFailure(@, ErrTimeout)]
    /\ task' = [task EXCEPT ![i].pc = "done", ![i].child = "gone",
                             ![i].end = "timeout"]
    /\ active_executions' = active_executions \ {i}
    /\ UNCHANGED <<outVars, catVars, insVars, strVars, startPc, phase, schedulerRunning, jobs, active, uninstalled,
                   rejected>>

\* ------------------------------------------------ catalog requests
\* SchedulerService.add_job on the job table
AddJobEffect(j, sch, act, unin) ==
    IF act[ScriptOf(sch)] /\ ~unin[ScriptOf(sch)]
    THEN [j EXCEPT ![sch] = "runtime"] ELSE j

\* PUT /scripts/{id}/schedules/{schedule_id}
UpdateSchedule(sch) ==
    /\ phase = "up"
    /\ active[ScriptOf(sch)]
    /\ jobs' = AddJobEffect(jobs, sch, active, uninstalled)
    /\ UNCHANGED <<outVars, catVars, insVars, strVars, startPc, phase, schedulerRunning, executions, task,
                   active_executions, active, uninstalled, rejected>>

\* PUT /scripts/{id} with is_active
UpdateScriptActive(s, b) ==
    /\ phase = "up"
    /\ active' = [active EXCEPT ![s] = b]
    /\ jobs' = [sch \in Schedules |->
                  IF ScriptOf(sch) # s THEN jobs[sch]
                  ELSE IF b THEN AddJobEffect(jobs, sch, active', uninstalled)[sch]
                  ELSE "none"]
    /\ UNCHANGED <<outVars, catVars, insVars, strVars, startPc, phase, schedulerRunning, executions, task,
                   active_executions, uninstalled, rejected>>

\* PUT /scripts/{id} with dependencies: new rows have no installed_version
UpdateScriptDependencies(s) ==
    /\ phase = "up"
    /\ uninstalled' = [uninstalled EXCEPT ![s] = TRUE]
    /\ UNCHANGED <<outVars, catVars, insVars, strVars, startPc, phase, schedulerRunning, executions, task,
                   active_executions, jobs, active, rejected>>

\* _install_dependencies_task succeeded
InstallDependencies(s) ==
    /\ phase = "up"
    /\ uninstalled' = [uninstalled EXCEPT ![s] = FALSE]
    /\ UNCHANGED <<outVars, catVars, insVars, strVars, startPc, phase, schedulerRunning, executions, task,
                   active_executions, jobs, active, rejected>>

\* ------------------------------------------------------------ shutdown
\* the remaining-executions query of stop()
RemainingExecutions(ex) == {i \in DOMAIN ex : ex[i].status \in {"RUNNING", "PENDING"}}

MarkShutdown(e) ==
    [e EXCEPT !.status = "FAILURE", !.completed = TRUE, !.error = ErrShutdown]

\* lifespan shutdown -> stop(): wait for the tracked tasks, then mark
StopMark ==
    /\ phase = "up"
    /\ \A i \in Ids : task[i].kind = "manual" => ~Live(i)
    /\ phase' = "marked"
    /\ executions' = [i \in DOMAIN executions |->
                        IF i \in RemainingExecutions(executions)
                        THEN MarkShutdown(executions[i]) ELSE executions[i]]
    /\ UNCHANGED <<outVars, catVars, insVars, strVars, startPc, schedulerRunning, task, active_executions, jobs,
                   active, uninstalled, rejected>>

\* CancelledError reaches the coroutine: the finally block of execute
\* terminates the child it had spawned
Cancelled(t, p) ==
    [t EXCEPT !.pc = p, !.end = "cancelled",
              !.child = IF t.child = "alive" THEN "gone" ELSE t.child]

\* stop(): cancel the tracked tasks, then scheduler.shutdown(), which
\* cancels the coroutines of the jobs that are still running
StopShutdown ==
    /\ phase = "marked"
    /\ phase' = "down"
    /\ schedulerRunning' = FALSE
    /\ task' = [i \in DOMAIN task |->
                  IF i \in active_executions /\ Live(i)
                  THEN Cancelled(task[i], "cancelled")
                  ELSE IF Scheduled(i) /\ Live(i)
                  THEN Cancelled(task[i], "dead")
                  ELSE task[i]]
    /\ UNCHANGED <<outVars, catVars, insVars, strVars, startPc, executions, active_executions, jobs, active,
                   uninstalled, rejected>>

\* _execute_script: except asyncio.CancelledError
CancelHandler(i) ==
    /\ task[i].pc = "cancelled"
    /\ executions' = [executions EXCEPT ![i].status = "FAILURE",
                                        ![i].completed = TRUE,
                                        ![i].error = ErrCancelled]
    /\ task' = [task EXCEPT ![i].pc = "done"]
    /\ active_executions' = active_executions \ {i}
    /\ UNCHANGED <<outVars, catVars, insVars, strVars, startPc, phase, schedulerRunning, jobs, active, uninstalled,
                   rejected>>

Next ==
    \/ StartRecover \/ StartLoadSchedules \/ StartScheduler
    \/ \E s \in Scripts : ExecuteScript(s)
    \/ \E s \in Scripts : ExecuteScriptRejected(s)
    \/ \E i \in Ids : HandlerSetupFail(i)
    \/ \E i \in Ids : BgStart(i)
    \/ \E i \in Ids : ManualDepsFail(i)
    \/ \E i \in Ids : Spawn(i)
    \/ \E i \in Ids, rc \in ExitCodes : ManualFinish(i, rc)
    \/ \E i \in Ids : ManualTimeout(i)
    \/ \E sch \in Schedules : FireStartJob(sch)
    \/ \E i \in Ids : FireRegister(i)
    \/ \E sch \in Schedules : FireRuntimeJob(sch)
    \/ \E sch \in Schedules : FireRuntimeJobUninstalled(sch)
    \/ \E i \in Ids : ScheduledSetupFail(i)
    \/ \E i \in Ids : ScheduledDepsFail(i)
    \/ \E i \in Ids, rc \in ExitCodes : ScheduledFinish(i, rc)
    \/ \E i \in Ids : ScheduledTimeout(i)
    \/ \E sch \in Schedules : UpdateSchedule(sch)
    \/ \E s \in Scripts, b \in BOOLEAN : UpdateScriptActive(s, b)
    \/ \E s \in Scripts : UpdateScriptDependencies(s)
    \/ \E s \in Scripts : InstallDependencies(s)
    \/ StopMark \/ StopShutdown
    \/ \E i \in Ids : CancelHandler(i)

Spec == Init /\ [][Next]_vars

\* ------------------------------------------------------------- fairness
\* the steps the event loop takes on its own for the coroutine of run i,
\* once the awaited thing (a commit, the child's exit, max_execution_time,
\* the cancellation) has happened
TaskNext(i) ==
    \/ HandlerSetupFail(i) \/ BgStart(i) \/ ManualDepsFail(i) \/ Spawn(i)
    \/ \E rc \in ExitCodes : ManualFinish(i, rc)
    \/ ManualTimeout(i)
    \/ FireRegister(i)
    \/ ScheduledSetupFail(i) \/ ScheduledDepsFail(i)
    \/ \E rc \in ExitCodes : ScheduledFinish(i, rc)
    \/ ScheduledTimeout(i)
    \/ CancelHandler(i)

\* the three stages of start(), which the lifespan awaits one after another
StartNext == StartRecover \/ StartLoadSchedules \/ StartScheduler

\* the program under a loop that keeps running every coroutine that can
\* take a step; requests, cron fires and the shutdown may or may not come
SpecFair ==
    /\ Spec
    /\ WF_vars(StartNext)
    /\ \A i \in 1..MaxExec : WF_vars(i \in Ids /\ TaskNext(i))

\* ====================================================================
\* The output path of one run
\* ====================================================================
\* the run SpecOutput follows is the last row of its executions table
Run == Len(executions)

ctlVars == <<startPc, phase, schedulerRunning, active_executions, jobs,
             active, uninstalled, rejected, catVars, insVars, strVars>>

\* an earlier manual run of the same script whose coordinator has
\* committed its result and has its finally block left to run
EarlierRow == [NewExecution(1, NoSchedule, "SUCCESS") EXCEPT !.completed = TRUE]

EarlierTask ==
    [NewTask("manual", "stored") EXCEPT !.exit = 0, !.child = "gone", !.end = "exit"]

\* the run has been requested: execute_script, or a fire of _run_script,
\* has committed its PENDING row; the table is empty but for that row, or
\* holds an earlier run of the script as well
InitOutput ==
    /\ startPc = Len(StartSteps) + 1
    /\ phase = "up"
    /\ schedulerRunning = TRUE
    /\ \E k \in {"manual", "runtime_job"}, earlier \in BOOLEAN :
         /\ executions =
              (IF earlier THEN <<EarlierRow>> ELSE <<>>)
              \o <<NewExecution(1, IF k = "manual" THEN NoSchedule ELSE 1,
                                "PENDING")>>
         /\ task =
              (IF earlier THEN <<EarlierTask>> ELSE <<>>)
              \o <<NewTask(k, IF k = "manual" THEN "handler_setup" ELSE "setup")>>
    /\ active_executions = {}
    /\ jobs = [sch \in Schedules |-> "runtime"]
    /\ active = [s \in Scripts |-> TRUE]
    /\ uninstalled = [s \in Scripts |-> FALSE]
    /\ rejected = 0
    /\ output_file = NoFile
    /\ output_lines = <<>>
    /\ log_output = NoLog
    /\ readers = [r \in Subscribers |-> NewReader]
    /\ EmptyCatalog
    /\ NoInstall
    /\ NoStreams

\* ------------------------------------------------ ScriptManager.execute
Header == <<"Starting script execution...", NL>>

\* _stream_generator: the line it writes to the file for a line of the child
StreamLine(is_stderr, text) ==
    IF is_stderr THEN <<"ERROR: ", text, NL>> ELSE <<text, NL>>

\* what the child may print: <<is_stderr, text>>
ChildLines == {<<FALSE, "hello">>, <<TRUE, "oops">>}

Footer(rc) ==
    IF rc # 0
    THEN <<"Error: Script exited with return code ", ToString(rc), NL>>
    ELSE <<>>

\* the string yielded on a timeout; the literal is not an f-string
TimeoutLine ==
    <<"Error: Script execution timed out after {settings.max_execution_time} seconds", NL>>

NumLines(text) == Cardinality({k \in DOMAIN text : text[k] = NL})

\* execute up to create_subprocess_exec: touch, open "wb", write the header
ExecuteOpen(i) ==
    /\ \/ task[i].kind = "manual" /\ task[i].pc = "exec"
       \/ Scheduled(i) /\ task[i].pc = "setup"
    /\ ~uninstalled[executions[i].script]
    /\ output_file' = [exists |-> TRUE, content |-> Header]
    /\ task' = [task EXCEPT ![i].pc = "child", ![i].child = "alive"]
    /\ UNCHANGED <<ctlVars, executions, output_lines, log_output, readers>>

\* the child prints a line; a stream handler writes it to the file
ChildPrints(i, l) ==
    /\ task[i].pc = "child"
    /\ NumLines(output_file.content) < NumLines(Header) + MaxLines
    /\ output_file' = [output_file EXCEPT
                         !.content = @ \o StreamLine(l[1], l[2])]
    /\ UNCHANGED <<ctlVars, executions, task, output_lines, log_output, readers>>

\* the child exits: the footer is written and yielded, then the whole file
\* is read back and yielded
ExecuteReturns(i, rc) ==
    /\ task[i].pc = "child"
    /\ output_file.exists
    /\ LET content == output_file.content \o Footer(rc) IN
         /\ output_file' = [output_file EXCEPT !.content = content]
         /\ output_lines' = Footer(rc) \o content
    /\ task' = [task EXCEPT ![i].pc = "collected", ![i].exit = rc,
                             ![i].child = "gone", ![i].end = "exit"]
    /\ UNCHANGED <<ctlVars, executions, log_output, readers>>

\* the child exits and the file is gone from the directory: the footer is
\* written to the open handle and yielded, then the open for the read-back
\* raises FileNotFoundError
ExecuteReadFails(i, rc) ==
    /\ task[i].pc = "child"
    /\ ~output_file.exists
    /\ output_file' = [output_file EXCEPT !.content = @ \o Footer(rc)]
    /\ output_lines' = Footer(rc)
    /\ task' = [task EXCEPT ![i].pc = "raised", ![i].exit = rc,
                             ![i].child = "gone", ![i].end = "readback"]
    /\ UNCHANGED <<ctlVars, executions, log_output, readers>>

\* wait_for timed out: one string is yielded, then execute raises and its
\* finally block terminates the child
ExecuteTimesOut(i) ==
    /\ task[i].pc = "child"
    /\ output_lines' = TimeoutLine
    /\ task' = [task EXCEPT ![i].pc = "raised", ![i].child = "gone",
                             ![i].end = "timeout"]
    /\ UNCHANGED <<ctlVars, executions, output_file, log_output, readers>>

\* "".join(output_lines)
Joined(lines) == [set |-> TRUE, text |-> lines]

\* after its last commit _execute_script has its finally block to run;
\* _run_script has none and ends
AfterStore(t) == IF t.kind = "runtime_job" THEN "done" ELSE "stored"

\* the coordinator commits the result of a run that ended without exception
StoreResult(i) ==
    /\ task[i].pc = "collected"
    /\ IF task[i].kind = "manual"
       THEN executions' = [executions EXCEPT ![i] = ManualResult(@, task[i].exit)]
       ELSE executions' = [executions EXCEPT ![i] = ScheduledResult(@, task[i].exit)]
    /\ log_output' = Joined(output_lines)
    /\ task' = [task EXCEPT ![i].pc = AfterStore(task[i])]
    /\ UNCHANGED <<ctlVars, output_file, output_lines, readers>>

\* the except branch of the coordinator; only the scheduled one stores the
\* collected output
StoreFailure(i) ==
    /\ task[i].pc = "raised"
    /\ LET raised == IF task[i].end = "timeout" THEN ErrTimeout ELSE ErrNoFile IN
       IF task[i].kind = "manual"
       THEN /\ executions' = [executions EXCEPT ![i] = ManualException(@, raised)]
            /\ log_output' = log_output
       ELSE /\ executions' = [executions EXCEPT ![i] = ScheduledFailure(@, raised)]
            /\ log_output' = Joined(output_lines)
    /\ task' = [task EXCEPT ![i].pc = AfterStore(task[i])]
    /\ UNCHANGED <<ctlVars, output_file, output_lines, readers>>

\* manager.cleanup(remove_environment=False) in the finally block of
\* _execute_script: unlink of every output_*.txt of the script's directory
Cleanup(i) ==
    /\ task[i].pc = "stored"
    /\ output_file' = [output_file EXCEPT !.exists = FALSE]
    /\ task' = [task EXCEPT ![i].pc = "done"]
    /\ UNCHANGED <<ctlVars, executions, output_lines, log_output, readers>>

\* ------------------------------------------------ read_output
EndsWithNewline(line) == line # <<>> /\ line[Len(line)] = NL

\* str.splitlines(True)
RECURSIVE SplitLines(_)
SplitLines(text) ==
    IF text = <<>> THEN <<>>
    ELSE LET ends == {k \in DOMAIN text : text[k] = NL} IN
         IF ends = {} THEN <<text>>
         ELSE LET k == CHOOSE e \in ends : \A f \in ends : e <= f IN
              <<SubSeq(text, 1, k)>> \o SplitLines(SubSeq(text, k + 1, Len(text)))

\* str.rstrip() on a line
Rstrip(line) == IF EndsWithNewline(line) THEN SubSeq(line, 1, Len(line) - 1) ELSE line

\* f.seek(position); f.read()
ReadFrom(file, position) ==
    IF file.exists THEN SubSeq(file.content, position + 1, Len(file.content))
    ELSE <<>>

\* the first read of an iteration: the reader after it
FirstRead(rd, file, status) ==
    LET new_content == ReadFrom(file, rd.position)
        lines == SplitLines(rd.last_incomplete_line \o new_content)
        last == IF lines = <<>> THEN <<>> ELSE lines[Len(lines)]
    IN  IF new_content = <<>>
        THEN [rd EXCEPT !.is_finished = status \notin Unterminated]
        ELSE [rd EXCEPT !.is_finished = status \notin Unterminated,
                        !.position = Len(file.content),
                        !.pending = SelectSeq(lines, EndsWithNewline),
                        !.last_incomplete_line =
                            IF EndsWithNewline(last) THEN <<>> ELSE last]

\* "One final read attempt": the strings it yields
FinalRead(rd, file) ==
    LET remaining == ReadFrom(file, rd.position) IN
    IF remaining # <<>> THEN <<rd.last_incomplete_line \o remaining>> ELSE <<>>

Closed(rd, how) == [rd EXCEPT !.pc = "closed", !.end = how]

\* the end of an iteration whose yields are done
AfterYields(rd, file) ==
    IF ~rd.is_finished THEN [rd EXCEPT !.pc = "poll"]
    ELSE IF FinalRead(rd, file) = <<>> THEN Closed(rd, "exhausted")
    ELSE [rd EXCEPT !.pc = "final_yield", !.pending = FinalRead(rd, file)]

\* ------------------------------------------------ websocket handlers
Connected == <<"Connected to execution stream...">>
StatusMsg(st) == <<"STATUS: ", st>>
ErrorMsg(e) == <<"Error: ", e.error.msg>>
StatusErrorMsg(e) == <<"STATUS: ", e.status, NL, "Error: ", e.error.msg>>
FileWarning == <<"Warning: Execution completed but output file was not created">>

\* a client connects; execution_output starts read_output at once
Subscribe(r) ==
    /\ readers[r].pc = "none"
    /\ readers' = [readers EXCEPT ![r] =
         IF HandlerOf(r) = "websocket_endpoint"
         THEN [@ EXCEPT !.pc = "wait", !.sent = <<Connected>>]
         ELSE [@ EXCEPT !.pc = "poll",
                        !.live = executions[Run].status \in Unterminated]]
    /\ UNCHANGED <<ctlVars, executions, task, output_file, output_lines, log_output>>

\* websocket_endpoint: one turn of "Wait for output file to be created"
WaitForFile(r) ==
    /\ readers[r].pc = "wait"
    /\ LET e == executions[Run]
           rd == readers[r]
           status_update == IF e.status # rd.last_status
                            THEN <<StatusMsg(e.status)>> ELSE <<>>
           error_update == IF e.status \in Terminal /\ e.error # NoError
                           THEN <<ErrorMsg(e)>> ELSE <<>>
       IN  readers' = [readers EXCEPT ![r] =
             IF output_file.exists
             THEN [rd EXCEPT !.pc = "poll", !.live = e.status \in Unterminated]
             ELSE IF e.status = "SUCCESS"
             THEN Closed([rd EXCEPT !.last_status = e.status,
                                    !.sent = @ \o status_update \o error_update
                                               \o <<FileWarning>>], "return")
             ELSE IF e.status = "FAILURE"
             THEN Closed([rd EXCEPT !.last_status = e.status,
                                    !.sent = @ \o status_update \o error_update],
                         "return")
             ELSE [rd EXCEPT !.last_status = e.status,
                             !.sent = @ \o status_update]]
    /\ UNCHANGED <<ctlVars, executions, task, output_file, output_lines, log_output>>

\* read_output: the status query and the first read of an iteration
ReadOutputPoll(r) ==
    /\ readers[r].pc = "poll"
    /\ LET rd == FirstRead(readers[r], output_file, executions[Run].status) IN
       readers' = [readers EXCEPT ![r] =
                     IF rd.pending # <<>> THEN [rd EXCEPT !.pc = "yield"]
                     ELSE AfterYields(rd, output_file)]
    /\ UNCHANGED <<ctlVars, executions, task, output_file, output_lines, log_output>>

\* the body of websocket_endpoint's loop for a yielded line
SentByEndpoint(rd, line, e) ==
    [rd EXCEPT !.sent = @ \o <<Rstrip(line)>>
                          \o (IF e.status # rd.last_status
                              THEN <<StatusMsg(e.status)>> ELSE <<>>)
                          \o (IF /\ e.status # rd.last_status
                                 /\ e.status = "FAILURE" /\ e.error # NoError
                              THEN <<ErrorMsg(e)>> ELSE <<>>),
               !.last_status = e.status]

\* the body of execution_output's loop for a yielded line
SentByOutput(rd, line, e) ==
    IF e.status = "FAILURE" THEN Closed([rd EXCEPT !.sent = @ \o <<StatusErrorMsg(e)>>], "break")
    ELSE IF e.status = "SUCCESS" THEN Closed([rd EXCEPT !.sent = @ \o <<StatusMsg(e.status)>>], "break")
    ELSE [rd EXCEPT !.sent = @ \o <<line>>]

\* read_output yields a line and the handler runs its loop body on it; the
\* generator then goes on to its next yield, its final read or its sleep
Deliver(r) ==
    /\ readers[r].pc \in {"yield", "final_yield"}
    /\ LET line == Head(readers[r].pending)
           yielded == [readers[r] EXCEPT !.pending = Tail(@), !.got = @ \o line]
           rd == IF HandlerOf(r) = "websocket_endpoint"
                 THEN SentByEndpoint(yielded, line, executions[Run])
                 ELSE SentByOutput(yielded, line, executions[Run])
       IN  readers' = [readers EXCEPT ![r] =
             IF rd.pc = "closed" \/ rd.pending # <<>> THEN rd
             ELSE IF rd.pc = "final_yield" THEN Closed(rd, "exhausted")
             ELSE IF rd.is_finished THEN [rd EXCEPT !.pc = "final"]
             ELSE [rd EXCEPT !.pc = "poll"]]
    /\ UNCHANGED <<ctlVars, executions, task, output_file, output_lines, log_output>>

\* a final read that removes the file it has drained
ReadOutputFinal_Unlinks(r) ==
    /\ readers[r].pc = "final"
    /\ readers' = [readers EXCEPT ![r] = AfterYields(@, output_file)]
    /\ output_file' = [output_file EXCEPT !.exists = FALSE]
    /\ UNCHANGED <<ctlVars, executions, task, output_lines, log_output>>

\* read_output: the final read, after the yields of a finished iteration
ReadOutputFinal(r) ==
    /\ readers[r].pc = "final"
    /\ readers' = [readers EXCEPT ![r] = AfterYields(@, output_file)]
    /\ UNCHANGED <<ctlVars, executions, task, output_file, output_lines, log_output>>

\* the client goes away: send_text raises WebSocketDisconnect
Disconnect(r) ==
    /\ readers[r].pc \notin {"none", "closed"}
    /\ readers' = [readers EXCEPT ![r] = Closed(@, "disconnect")]
    /\ UNCHANGED <<ctlVars, executions, task, output_file, output_lines, log_output>>

WriterNext ==
    \/ BgStart(Run)
    \/ ExecuteOpen(Run)
    \/ \E l \in ChildLines : ChildPrints(Run, l)
    \/ \E rc \in ExitCodes : ExecuteReturns(Run, rc)
    \/ \E rc \in ExitCodes : ExecuteReadFails(Run, rc)
    \/ ExecuteTimesOut(Run)
    \/ StoreResult(Run)
    \/ StoreFailure(Run)
    \/ Cleanup(Run)

ReaderNext(r) ==
    \/ Subscribe(r)
    \/ WaitForFile(r)
    \/ ReadOutputPoll(r)
    \/ Deliver(r)
    \/ ReadOutputFinal(r)
    \/ Disconnect(r)

\* the coordinator of the earlier run
EarlierNext == \E i \in Ids \ {Run} : Cleanup(i)

NextOutput == WriterNext \/ EarlierNext \/ \E r \in Subscribers : ReaderNext(r)

SpecOutput == InitOutput /\ [][NextOutput]_vars

\* ====================================================================
\* SpecStreams: the child of one run, its two pipes and the output file
\* ====================================================================
\* lines the child prints on each stream
MaxPrinted == 2
\* runs of a provisioner in SpecManifest
MaxProvisions == 2

\* limit= of create_subprocess_exec: the most bytes readline() returns
PipeLimit == 8192

\* a line the child prints: its text, its length in bytes with the newline,
\* and whether the bytes are valid UTF-8
PrintedLines ==
    {[text |-> <<"a">>, bytes |-> 2, utf8 |-> TRUE],
     [text |-> <<"b">>, bytes |-> 2, utf8 |-> TRUE],
     [text |-> <<"long">>, bytes |-> 9000, utf8 |-> TRUE],
     [text |-> <<"bin">>, bytes |-> 2, utf8 |-> FALSE]}

\* the run is inside execute(): the header is written and the child is alive
InitStreams ==
    /\ startPc = Len(StartSteps) + 1
    /\ phase = "up"
    /\ schedulerRunning = TRUE
    /\ executions = <<NewExecution(1, NoSchedule, "RUNNING")>>
    /\ task = <<[NewTask("manual", "child") EXCEPT !.child = "alive"]>>
    /\ active_executions = {}
    /\ jobs = [sch \in Schedules |-> "none"]
    /\ active = [s \in Scripts |-> TRUE]
    /\ uninstalled = [s \in Scripts |-> FALSE]
    /\ rejected = 0
    /\ output_file = [exists |-> TRUE, content |-> Header]
    /\ output_lines = <<>>
    /\ log_output = NoLog
    /\ readers = [r \in Subscribers |-> NewReader]
    /\ EmptyCatalog
    /\ NoInstall
    /\ NoStreams

\* what no step of the child or of a stream handler touches
strFrame == <<startPc, phase, schedulerRunning, active_executions, jobs, active,
              uninstalled, rejected, catVars, insVars, executions, log_output,
              readers>>

\* the child prints a line on one of its streams
ChildWrites(i, st, l) ==
    /\ task[i].child = "alive"
    /\ Len(printed[st]) < MaxPrinted
    /\ printed' = [printed EXCEPT ![st] = Append(@, l)]
    /\ pipes' = [pipes EXCEPT ![st] = Append(@, l)]
    /\ UNCHANGED <<strFrame, task, output_file, output_lines>>

\* the part of a line that is still to come when readline() has given up
\* on its first PipeLimit bytes
Rest(l) == [l EXCEPT !.text = <<"rest of">> \o @, !.bytes = @ - PipeLimit]

\* stream.readline() on the pipe: the line, or ValueError for a line longer
\* than the limit; the reader then drops the line, or the part it had
\* buffered
Readline(pipe) ==
    LET l == Head(pipe) IN
    IF l.bytes <= PipeLimit THEN {[line |-> <<l>>, pipe |-> Tail(pipe)]}
    ELSE {[line |-> <<>>, pipe |-> Tail(pipe)],
          [line |-> <<>>, pipe |-> <<Rest(l)>> \o Tail(pipe)]}

\* line.decode() raises UnicodeDecodeError on bytes that are not UTF-8
Decodes(l) == l.utf8

\* _stream_generator: what one turn of its loop writes to the file for the
\* result of readline(); "except Exception: continue" writes nothing
Written(st, read) ==
    IF read = <<>> \/ ~Decodes(read[1]) THEN <<>>
    ELSE StreamLine(st = "stderr", read[1].text)

\* one turn of the loop of a stream handler with a line in its pipe
StreamRead(i, st) ==
    /\ task[i].pc \in {"child", "drain"}
    /\ pipes[st] # <<>>
    /\ \E r \in Readline(pipes[st]) :
         /\ pipes' = [pipes EXCEPT ![st] = r.pipe]
         /\ output_file' = [output_file EXCEPT
                              !.content = @ \o Written(st, r.line)]
    /\ UNCHANGED <<strFrame, task, printed, output_lines>>

\* process.wait() returns: the child has exited
ProcessExits(i, rc) ==
    /\ task[i].pc = "child"
    /\ task' = [task EXCEPT ![i].pc = "drain", ![i].exit = rc,
                             ![i].child = "gone"]
    /\ UNCHANGED <<strFrame, printed, pipes, output_file, output_lines>>

\* gather() returns: both handlers have read the end of their stream; the
\* footer is written and yielded, the file is read back and yielded
StreamsDrained(i) ==
    /\ task[i].pc = "drain"
    /\ \A st \in Streams : pipes[st] = <<>>
    /\ LET content == output_file.content \o Footer(task[i].exit) IN
         /\ output_file' = [output_file EXCEPT !.content = content]
         /\ output_lines' = Footer(task[i].exit) \o content
    /\ task' = [task EXCEPT ![i].pc = "collected", ![i].end = "exit"]
    /\ UNCHANGED <<strFrame, printed, pipes>>

NextStreams ==
    \/ \E st \in Streams, l \in PrintedLines : ChildWrites(1, st, l)
    \/ \E st \in Streams : StreamRead(1, st)
    \/ \E rc \in ExitCodes : ProcessExits(1, rc)
    \/ StreamsDrained(1)
    \/ ExecuteTimesOut(1)

SpecStreams == InitStreams /\ [][NextStreams]_vars

\* ====================================================================
\* SpecCatalog: script requests, their tables and the job table
\* SpecSchedules: schedules, their jobs, deletions and restarts
\* ====================================================================

\* what no catalog request and no restart touches
catFrame == <<startPc, task, active_executions, active, uninstalled, rejected,
              outVars, insVars, strVars>>

InitCatalog ==
    /\ startPc = Len(StartSteps) + 1
    /\ phase = "up"
    /\ schedulerRunning = TRUE
    /\ executions = <<>>
    /\ task = <<>>
    /\ active_executions = {}
    /\ jobs = [sch \in Schedules |-> "none"]
    /\ active = [s \in Scripts |-> TRUE]
    /\ uninstalled = [s \in Scripts |-> FALSE]
    /\ rejected = 0
    /\ output_file = NoFile
    /\ output_lines = <<>>
    /\ log_output = NoLog
    /\ readers = [r \in Subscribers |-> NewReader]
    /\ EmptyCatalog
    /\ NoInstall
    /\ NoStreams

\* request bodies: ScriptCreate and ScriptUpdate of api/models.py
CreateBodies ==
    [name : Names, description : {"d"}, content : {"c"}, is_active : BOOLEAN,
     tags : {<<>>, <<"t1">>}, dependencies : {<<>>, <<DepRequest>>},
     schedules : {<<>>, <<GoodCron>>}]

\* an update that supplies nothing, or nothing but a name
NameOnly(n) ==
    [name |-> n, description |-> None, content |-> None, is_active |-> None,
     tags |-> None, dependencies |-> None, schedules |-> None]

\* the updates SpecCatalog sends: with or without a name, at most one of
\* description with content, is_active, tags, dependencies, schedules
UpdateBodies ==
    UNION {
        {NameOnly(n),
         [NameOnly(n) EXCEPT !.description = Some("d2"), !.content = Some("c2")]}
        \cup {[NameOnly(n) EXCEPT !.is_active = Some(v)] : v \in BOOLEAN}
        \cup {[NameOnly(n) EXCEPT !.tags = Some(v)] : v \in {<<>>, <<"t2">>}}
        \cup {[NameOnly(n) EXCEPT !.dependencies = Some(v)] :
                v \in {<<>>, <<DepRequest>>}}
        \cup {[NameOnly(n) EXCEPT !.schedules = Some(v)] :
                v \in {<<>>, <<GoodCron>>}}
        : n \in {None} \cup {Some(m) : m \in Names}}

\* the bodies SpecSchedules sends: scripts that differ in name and
\* is_active only, updates of is_active or of the schedules
PlainCreateBodies ==
    [name : Names, description : {"d"}, content : {"c"}, is_active : BOOLEAN,
     tags : {<<>>}, dependencies : {<<>>}, schedules : {<<>>, <<GoodCron>>}]

SwitchBodies ==
    {[NameOnly(None) EXCEPT !.is_active = Some(v)] : v \in BOOLEAN}
    \cup {[NameOnly(None) EXCEPT !.schedules = Some(v)] :
            v \in {<<>>, <<GoodCron>>}}

RangeOf(seq) == {seq[k] : k \in DOMAIN seq}

\* the scripts, other than those in except, that carry the name
NameTaken(name, except) ==
    \E id \in RowIds(scripts) \ except : scripts[id].name = name

\* the schedules of a script
SchedulesOf(id) == {sch \in RowIds(schedules) : schedules[sch].script_id = id}

\* ScriptManager.has_uninstalled_dependencies on the committed rows
HasUninstalled(id) ==
    \/ id \notin venvs
    \/ \E k \in DOMAIN scripts[id].dependencies :
         scripts[id].dependencies[k].installed_version = NoVersion

\* AsyncIOScheduler.remove_job: JobLookupError when the id has no job
SchedulerRemoveJob(j, sch) ==
    [jobs |-> [j EXCEPT ![sch] = "none"],
     error |-> IF j[sch] = "none" THEN "JobLookupError" ELSE "none"]

\* a remove_job that lets the error of the scheduler through
RemoveJobCall_Propagates(j, sch) == SchedulerRemoveJob(j, sch)

\* SchedulerService.remove_job: the call, with the error caught and logged
RemoveJobCall(j, sch) == [SchedulerRemoveJob(j, sch) EXCEPT !.error = "none"]

\* a remove_job that leaves the job table as it is
RemoveJob_LeavesJob(j, sch) == j

\* the job table after SchedulerService.remove_job
RemoveJob(j, sch) == RemoveJobCall(j, sch).jobs

\* SchedulerService.add_job on the job table, for a persistent schedule of
\* a script whose is_active and dependencies are as given
AddJob(j, sch, is_active, unin, cron) ==
    IF ~is_active \/ unin THEN j
    ELSE IF FromCrontab(cron) THEN [RemoveJob(j, sch) EXCEPT ![sch] = "runtime"]
    ELSE RemoveJob(j, sch)

\* executions.schedule_id ... ON DELETE SET NULL
OnDeleteSchedule_NoAction(ex, gone) == ex

OnDeleteSchedule(ex, gone) ==
    [i \in DOMAIN ex |->
       IF ex[i].schedule \in gone THEN [ex[i] EXCEPT !.schedule = NoSchedule]
       ELSE ex[i]]

\* delete(Execution).where(script_id == id); also ON DELETE CASCADE
DeleteExecutionsOf(ex, id) == SelectSeq(ex, LAMBDA e : e.script # id)

Answer(code) == [status |-> code]
Returned(id) == [status |-> 200, id |-> id]

\* the Script that create_script builds from its body
CreatedRow(b) ==
    [name |-> b.name, description |-> b.description, content |-> b.content,
     is_active |-> b.is_active, tags |-> RangeOf(b.tags),
     dependencies |-> [k \in DOMAIN b.dependencies |->
                         NewDependency(b.dependencies[k])]]

\* an update that appends the given tags to those the script has
UpdatedRow_KeepsTags(old, b) ==
    [name |-> IF b.name # None THEN b.name[1] ELSE old.name,
     description |-> IF b.description # None THEN b.description[1]
                     ELSE old.description,
     content |-> IF b.content # None THEN b.content[1] ELSE old.content,
     is_active |-> IF b.is_active # None THEN b.is_active[1] ELSE old.is_active,
     tags |-> IF b.tags # None THEN old.tags \cup RangeOf(b.tags[1]) ELSE old.tags,
     dependencies |-> IF b.dependencies # None
                      THEN [k \in DOMAIN b.dependencies[1] |->
                              NewDependency(b.dependencies[1][k])]
                      ELSE old.dependencies]

\* the Script as update_script leaves it in the session
UpdatedRow(old, b) ==
    [name |-> IF b.name # None THEN b.name[1] ELSE old.name,
     description |-> IF b.description # None THEN b.description[1]
                     ELSE old.description,
     content |-> IF b.content # None THEN b.content[1] ELSE old.content,
     is_active |-> IF b.is_active # None THEN b.is_active[1] ELSE old.is_active,
     tags |-> IF b.tags # None THEN RangeOf(b.tags[1]) ELSE old.tags,
     dependencies |-> IF b.dependencies # None
                      THEN [k \in DOMAIN b.dependencies[1] |->
                              NewDependency(b.dependencies[1][k])]
                      ELSE old.dependencies]

\* POST /scripts
PostScript(b) ==
    /\ phase = "up"
    /\ IF NameTaken(b.name, {})
       THEN /\ response' = Answer(400)
            /\ UNCHANGED <<scripts, schedules, tags>>
       ELSE LET id == NextId(scripts)
                sch == NextId(schedules)
                row == CreatedRow(b)
            IN  /\ id <= MaxScripts
                /\ b.schedules # <<>> => sch <= MaxSchedules
                /\ scripts' = [scripts EXCEPT ![id] = row]
                /\ tags' = tags \cup RangeOf(b.tags)
                /\ schedules' =
                     IF b.schedules = <<>> THEN schedules
                     ELSE [schedules EXCEPT ![sch] =
                             [script_id |-> id, cron_expression |-> b.schedules[1]]]
                /\ response' = Returned(id)
    /\ UNCHANGED <<catFrame, phase, schedulerRunning, executions, jobs, venvs>>

\* PUT /scripts/{id}.  The session autoflushes the pending UPDATE of the
\* name at the first statement it sends, so a name already in use raises
\* there; what the handler did to the job table before that stays done.
PutScript(id, b) ==
    /\ phase = "up"
    /\ IF ~Exists(scripts, id)
       THEN /\ response' = Answer(400)
            /\ UNCHANGED <<scripts, schedules, tags, executions, jobs>>
       ELSE LET old == scripts[id]
                own == SchedulesOf(id)
                dup == b.name # None /\ NameTaken(b.name[1], {id})
                is_active == UpdatedRow(old, b).is_active
                refreshes == b.is_active # None /\ own # {}
                jobsActive ==
                    IF b.is_active = None \/ dup THEN jobs
                    ELSE [sch \in Schedules |->
                            IF sch \notin own THEN jobs[sch]
                            ELSE IF is_active
                            THEN AddJob(jobs, sch, TRUE, HasUninstalled(id),
                                        schedules[sch].cron_expression)[sch]
                            ELSE RemoveJob(jobs, sch)[sch]]
                raised == dup /\ (refreshes \/ b.tags # None \/ b.dependencies # None)
                jobsSchedules ==
                    IF b.schedules = None \/ raised THEN jobsActive
                    ELSE [sch \in Schedules |->
                            IF sch \in own THEN RemoveJob(jobsActive, sch)[sch]
                            ELSE jobsActive[sch]]
                new == NextId(schedules)
                row == UpdatedRow(old, b)
            IN  /\ jobs' = jobsSchedules
                /\ IF dup
                   THEN /\ response' = Answer(400)
                        /\ UNCHANGED <<scripts, schedules, tags, executions>>
                   ELSE /\ (b.schedules # None /\ b.schedules[1] # <<>>)
                              => new <= MaxSchedules
                        /\ scripts' = [scripts EXCEPT ![id] = row]
                        /\ tags' = IF b.tags # None THEN tags \cup RangeOf(b.tags[1])
                                   ELSE tags
                        /\ schedules' =
                             IF b.schedules = None THEN schedules
                             ELSE [sch \in ScheduleIds |->
                                     IF sch \in own THEN NoRow
                                     ELSE IF b.schedules[1] # <<>> /\ sch = new
                                     THEN [script_id |-> id,
                                           cron_expression |-> b.schedules[1][1]]
                                     ELSE schedules[sch]]
                        /\ executions' =
                             IF b.schedules = None THEN executions
                             ELSE OnDeleteSchedule(executions, own)
                        /\ response' = Returned(id)
    /\ UNCHANGED <<catFrame, phase, schedulerRunning, venvs>>

\* DELETE /scripts/{id}
DeleteScript(id) ==
    /\ phase = "up"
    /\ IF ~Exists(scripts, id)
       THEN /\ response' = Answer(500)
            /\ UNCHANGED <<scripts, schedules, executions, jobs, venvs>>
       ELSE LET own == SchedulesOf(id)
            IN  /\ jobs' = [sch \in Schedules |->
                              IF sch \in own THEN RemoveJob(jobs, sch)[sch]
                              ELSE jobs[sch]]
                /\ venvs' = venvs \ {id}
                /\ schedules' = [sch \in ScheduleIds |->
                                   IF sch \in own THEN NoRow ELSE schedules[sch]]
                /\ executions' =
                     DeleteExecutionsOf(OnDeleteSchedule(executions, own), id)
                /\ scripts' = [scripts EXCEPT ![id] = NoRow]
                /\ response' = Answer(200)
    /\ UNCHANGED <<catFrame, phase, schedulerRunning, tags>>

\* POST /scripts/{id}/schedules
PostSchedule(id, cron) ==
    /\ phase = "up"
    /\ IF ~Exists(scripts, id)
       THEN /\ response' = Answer(404)
            /\ UNCHANGED <<schedules, jobs>>
       ELSE LET sch == NextId(schedules)
            IN  /\ sch <= MaxSchedules
                /\ schedules' = [schedules EXCEPT ![sch] =
                                   [script_id |-> id, cron_expression |-> cron]]
                /\ jobs' = AddJob(jobs, sch, scripts[id].is_active,
                                  HasUninstalled(id), cron)
                /\ response' = Answer(200)
    /\ UNCHANGED <<catFrame, phase, schedulerRunning, executions, scripts, tags,
                   venvs>>

\* PUT /scripts/{id}/schedules/{schedule_id}
PutSchedule(sch, cron) ==
    /\ phase = "up"
    /\ IF ~Exists(schedules, sch)
       THEN /\ response' = Answer(404)
            /\ UNCHANGED <<schedules, jobs>>
       ELSE LET id == schedules[sch].script_id
            IN  /\ schedules' = [schedules EXCEPT ![sch].cron_expression = cron]
                /\ jobs' = AddJob(jobs, sch, scripts[id].is_active,
                                  HasUninstalled(id), cron)
                /\ response' = Answer(200)
    /\ UNCHANGED <<catFrame, phase, schedulerRunning, executions, scripts, tags,
                   venvs>>

\* DELETE /scripts/{id}/schedules/{schedule_id}
DeleteSchedule(sch) ==
    /\ phase = "up"
    /\ IF ~Exists(schedules, sch)
       THEN /\ response' = Answer(404)
            /\ UNCHANGED <<schedules, executions, jobs>>
       ELSE /\ jobs' = RemoveJob(jobs, sch)
            /\ schedules' = [schedules EXCEPT ![sch] = NoRow]
            /\ executions' = OnDeleteSchedule(executions, {sch})
            /\ response' = Answer(200)
    /\ UNCHANGED <<catFrame, phase, schedulerRunning, scripts, tags, venvs>>

\* _install_dependencies_task succeeded: the virtualenv exists and every
\* dependency row carries its installed version
InstallTask(id) ==
    /\ phase = "up"
    /\ Exists(scripts, id)
    /\ venvs' = venvs \cup {id}
    /\ scripts' = [scripts EXCEPT ![id].dependencies =
                     [k \in DOMAIN @ |-> [@[k] EXCEPT !.installed_version = "1.0"]]]
    /\ UNCHANGED <<catFrame, phase, schedulerRunning, executions, jobs, schedules,
                   tags, response>>

\* a job fires: _execute_script (registered by start) or _run_script
\* (registered by add_job) commits the Execution row of the run
FireJob(sch) ==
    /\ phase = "up"
    /\ schedulerRunning
    /\ jobs[sch] # "none"
    /\ Exists(schedules, sch)
    /\ Len(executions) < MaxCatExec
    /\ LET id == schedules[sch].script_id
       IN  /\ jobs[sch] = "start" => scripts[id].is_active
           /\ IF jobs[sch] = "start"
              THEN /\ executions' = Append(executions, NewExecution(id, sch, "RUNNING"))
                   /\ jobs' = jobs
              ELSE IF HasUninstalled(id)
              THEN /\ executions' = Append(executions,
                          [NewExecution(id, sch, "FAILURE") EXCEPT
                             !.completed = TRUE, !.error = ErrUninstalled])
                   /\ jobs' = RemoveJob(jobs, sch)
              ELSE /\ executions' = Append(executions, NewExecution(id, sch, "PENDING"))
                   /\ jobs' = jobs
    /\ UNCHANGED <<catFrame, catVars, phase, schedulerRunning>>

\* the server process ends and run.py starts it again: the job table is
\* rebuilt by SchedulerService.start from the schedules of active scripts;
\* a cron expression that does not parse raises out of start and of the
\* lifespan, and uvicorn gives up
Restart ==
    /\ phase = "up"
    /\ LET loaded == {sch \in RowIds(schedules) :
                        scripts[schedules[sch].script_id].is_active}
           ok == \A sch \in loaded : FromCrontab(schedules[sch].cron_expression)
       IN  /\ executions' = [i \in DOMAIN executions |->
                               IF i \in StaleExecutions(executions)
                               THEN MarkStale(executions[i]) ELSE executions[i]]
           /\ jobs' = [sch \in Schedules |->
                         IF ok /\ sch \in loaded THEN "start" ELSE "none"]
           /\ schedulerRunning' = ok
           /\ phase' = IF ok THEN "up" ELSE "failed"
    /\ UNCHANGED <<catFrame, catVars>>

NextCatalog ==
    \/ \E b \in CreateBodies : PostScript(b)
    \/ \E id \in ScriptIds, b \in UpdateBodies : PutScript(id, b)
    \/ Restart

SpecCatalog == InitCatalog /\ [][NextCatalog]_vars

NextSchedules ==
    \/ \E b \in PlainCreateBodies : PostScript(b)
    \/ \E id \in ScriptIds, b \in SwitchBodies : PutScript(id, b)
    \/ \E id \in ScriptIds : DeleteScript(id)
    \/ \E id \in ScriptIds, cron \in {GoodCron, BadCron} : PostSchedule(id, cron)
    \/ \E sch \in ScheduleIds, cron \in {GoodCron, BadCron} : PutSchedule(sch, cron)
    \/ \E sch \in ScheduleIds : DeleteSchedule(sch)
    \/ \E id \in ScriptIds : InstallTask(id)
    \/ \E sch \in ScheduleIds : FireJob(sch)
    \/ Restart

SpecSchedules == InitCatalog /\ [][NextSchedules]_vars

\* ====================================================================
\* SpecManifest: one script, its dependency rows, and the two provisioners
\* ====================================================================
\* a string is the sequence of its characters
StartsWith(str, prefix) ==
    Len(prefix) <= Len(str) /\ SubSeq(str, 1, Len(prefix)) = prefix

\* str.strip()
RECURSIVE Strip(_)
Strip(str) ==
    IF str = <<>> THEN str
    ELSE IF Head(str) = " " THEN Strip(Tail(str))
    ELSE IF str[Len(str)] = " " THEN Strip(SubSeq(str, 1, Len(str) - 1))
    ELSE str

LowerCase ==
    [c \in {"Y", "R"} |-> IF c = "Y" THEN "y" ELSE "r"]

\* str.lower()
Lower(str) ==
    [k \in DOMAIN str |-> IF str[k] \in DOMAIN LowerCase THEN LowerCase[str[k]]
                          ELSE str[k]]

PackageNames ==
    {<<"y", "a">>, <<"Y", "a">>, <<"r", "q">>, <<"R", "q">>, <<"r", "q", " ">>}

VersionSpecs ==
    {<<>>, <<"*">>, <<"=", "=", "1">>, <<">", "=", "1">>, <<"<", "=", "2">>,
     <<">", "1">>, <<"<", "2">>, <<"~", "=", "1">>, <<"1">>, <<" ", "1">>,
     <<"=", "1">>, <<"!", "=", "1">>, <<"^", "1">>}

Comparisons == {<<">", "=">>, <<"<", "=">>, <<">">>, <<"<">>, <<"~", "=">>}

\* the dependency lists of the script: one row, or that row and a second
DependencyLists ==
    LET first == [package_name : PackageNames, version_spec : VersionSpecs]
        second == [package_name |-> <<"r", "q">>, version_spec |-> <<>>]
    IN  {<<d>> : d \in first} \cup {<<d, second>> : d \in first}

\* setup_environment: the line of requirements.txt for a dependency
SetupRequirement(dep) ==
    LET name == Strip(dep.package_name)
        version == Strip(dep.version_spec)
    IN  IF dep.version_spec = <<>> \/ dep.version_spec \in {<<"*">>, <<>>}
        THEN name
        ELSE IF StartsWith(dep.version_spec, <<"=", "=">>)
        THEN name \o dep.version_spec
        ELSE IF \E c \in Comparisons : StartsWith(dep.version_spec, c)
        THEN name \o dep.version_spec
        ELSE IF /\ version # <<>>
                /\ ~StartsWith(version, <<"*">>) /\ ~StartsWith(version, <<"=">>)
        THEN name \o <<"=", "=">> \o version
        ELSE name

\* _install_dependencies_task: the line of requirements.txt, and the
\* package_spec handed to pip, for a dependency
TaskRequirement(dep) ==
    IF dep.version_spec = <<>> \/ dep.version_spec \in {<<"*">>, <<>>}
    THEN dep.package_name
    ELSE IF StartsWith(dep.version_spec, <<"=", "=">>)
    THEN dep.package_name \o dep.version_spec
    ELSE IF \E c \in Comparisons : StartsWith(dep.version_spec, c)
    THEN dep.package_name \o dep.version_spec
    ELSE dep.package_name

\* the package index: the names its projects report, and their versions
Index == {<<"Y", "a">>, <<"r", "q">>}
Versions == {"1", "2"}

\* the characters of a project name
NameChars == {"y", "Y", "a", "r", "R", "q"}

\* the project name a requirement line starts with
RECURSIVE NameOf(_)
NameOf(line) ==
    IF line = <<>> \/ Head(line) \notin NameChars THEN <<>>
    ELSE <<Head(line)>> \o NameOf(Tail(line))

\* the projects pip finds for requirement lines; it compares names without
\* regard to case
Resolved(lines) ==
    {p \in Index : \E k \in DOMAIN lines : Lower(NameOf(Strip(lines[k]))) = Lower(p)}

Resolves(lines) ==
    \A k \in DOMAIN lines : \E p \in Index : Lower(NameOf(Strip(lines[k]))) = Lower(p)

\* "pip list" after a successful install of the lines at version v
Installed(packages, lines, v) ==
    {pkg \in packages : pkg.name \notin Resolved(lines)}
    \cup {[name |-> p, version |-> v] : p \in Resolved(lines)}

\* setup_environment: "Update installed versions" on the objects it was
\* given
SetupVersions(deps, packages) ==
    [k \in DOMAIN deps |->
       IF \E pkg \in packages : pkg.name = deps[k].package_name
       THEN [deps[k] EXCEPT !.installed_version =
               (CHOOSE pkg \in packages : pkg.name = deps[k].package_name).version]
       ELSE deps[k]]

\* _install_dependencies_task: "Update dependencies with installed versions"
TaskVersions(deps, packages) ==
    [k \in DOMAIN deps |->
       IF \E pkg \in packages : Lower(pkg.name) = Lower(deps[k].package_name)
       THEN [deps[k] EXCEPT !.installed_version =
               (CHOOSE pkg \in packages :
                    Lower(pkg.name) = Lower(deps[k].package_name)).version]
       ELSE deps[k]]

\* a finished run of a provisioner
Provisioned(by, ok) == [kind |-> by, pc |-> "done", ok |-> ok]

\* the script exists with its dependency rows, none installed
InitManifest ==
    /\ startPc = Len(StartSteps) + 1
    /\ phase = "up"
    /\ schedulerRunning = TRUE
    /\ executions = <<>>
    /\ task = <<>>
    /\ active_executions = {}
    /\ jobs = [sch \in Schedules |-> "none"]
    /\ active = [s \in Scripts |-> TRUE]
    /\ uninstalled = [s \in Scripts |-> TRUE]
    /\ rejected = 0
    /\ output_file = NoFile
    /\ output_lines = <<>>
    /\ log_output = NoLog
    /\ readers = [r \in Subscribers |-> NewReader]
    /\ \E deps \in DependencyLists :
         scripts = [id \in ScriptIds |->
                      IF id = 1
                      THEN [name |-> "a", description |-> "d", content |-> "c",
                            is_active |-> TRUE, tags |-> {},
                            dependencies |-> [k \in DOMAIN deps |->
                                                NewDependency(deps[k])]]
                      ELSE NoRow]
    /\ schedules = [sch \in ScheduleIds |-> NoRow]
    /\ tags = {}
    /\ venvs = {}
    /\ response = NoResponse
    /\ NoInstall
    /\ NoStreams

manFrame == <<startPc, phase, schedulerRunning, executions, task,
              active_executions, jobs, active, uninstalled, rejected, outVars,
              strVars, schedules, tags, response, files, pip_output, markers,
              tail>>

\* setup_environment, as execute_script, the scheduler and
\* _update_script_environment call it, on the rows of the script: it
\* returns, or pip fails and it raises.  No caller commits the session the
\* objects belong to.
ProvisionBySetup(id, ok, v) ==
    /\ Len(installs) < MaxProvisions
    /\ LET deps == scripts[id].dependencies
           lines == [k \in DOMAIN deps |-> SetupRequirement(deps[k])]
       IN  /\ ok => Resolves(lines)
           /\ venvs' = venvs \cup {id}
           /\ requirements' = lines
           /\ site_packages' = IF ok THEN Installed(site_packages, lines, v)
                               ELSE site_packages
           /\ dependencies' = IF ok THEN SetupVersions(deps, site_packages')
                              ELSE deps
           /\ scripts' = scripts
           /\ installs' = Append(installs, Provisioned("setup_environment", ok))
    /\ UNCHANGED manFrame

\* _install_dependencies_task from its start to its end: it commits the
\* versions, or pip fails and the session is rolled back
ProvisionByTask(id, ok, v) ==
    /\ Len(installs) < MaxProvisions
    /\ LET deps == scripts[id].dependencies
           lines == [k \in DOMAIN deps |-> TaskRequirement(deps[k])]
       IN  /\ ok => Resolves(lines)
           /\ venvs' = venvs \cup {id}
           /\ requirements' = lines
           /\ site_packages' = IF ok THEN Installed(site_packages, lines, v)
                               ELSE site_packages
           /\ scripts' = IF ok
                         THEN [scripts EXCEPT ![id].dependencies =
                                 TaskVersions(deps, site_packages')]
                         ELSE scripts
           /\ installs' = Append(installs, Provisioned("task", ok))
    /\ UNCHANGED <<manFrame, dependencies>>

NextManifest ==
    \/ \E ok \in BOOLEAN, v \in Versions : ProvisionBySetup(1, ok, v)
    \/ \E ok \in BOOLEAN, v \in Versions : ProvisionByTask(1, ok, v)

SpecManifest == InitManifest /\ [][NextManifest]_vars

\* ====================================================================
\* SpecInstall: the runs of _install_dependencies_task for one script, the
\* files they share and a client of the dependency websocket
\* ====================================================================
\* runs of the install task, and lines one pip invocation prints
MaxInstalls == 2
MaxPipLines == 1

\* the dependencies of the script SpecInstall follows
InstallDeps ==
    <<[package_name |-> <<"r", "q">>, version_spec |-> <<>>],
      [package_name |-> <<"y", "a">>, version_spec |-> <<>>]>>

\* a run of the task that has not loaded the script yet: its position, the
\* pip invocation it is in (0 is the upgrade of pip itself), the lines that
\* invocation has printed, every line the run has printed, and its outcome
NewInstall ==
    [kind |-> "task", pc |-> "start", invocation |-> 0, lines |-> 0,
     out |-> <<>>, ok |-> FALSE]

InitInstall ==
    /\ startPc = Len(StartSteps) + 1
    /\ phase = "up"
    /\ schedulerRunning = TRUE
    /\ executions = <<>>
    /\ task = <<>>
    /\ active_executions = {}
    /\ jobs = [sch \in Schedules |-> "none"]
    /\ active = [s \in Scripts |-> TRUE]
    /\ uninstalled = [s \in Scripts |-> TRUE]
    /\ rejected = 0
    /\ output_file = NoFile
    /\ output_lines = <<>>
    /\ log_output = NoLog
    /\ readers = [r \in Subscribers |-> NewReader]
    /\ scripts = [id \in ScriptIds |->
                    IF id = 1
                    THEN [name |-> "a", description |-> "d", content |-> "c",
                          is_active |-> TRUE, tags |-> {},
                          dependencies |-> [k \in DOMAIN InstallDeps |->
                                              NewDependency(InstallDeps[k])]]
                    ELSE NoRow]
    /\ schedules = [sch \in ScheduleIds |-> NoRow]
    /\ tags = {}
    /\ venvs = {}
    /\ response = NoResponse
    /\ NoInstall
    /\ NoStreams

insFrame == <<startPc, phase, schedulerRunning, executions, task,
              active_executions, jobs, active, uninstalled, rejected, outVars,
              strVars, schedules, tags, response, dependencies>>

\* the text of pip_output.txt as a reader that opens it now finds it
LogContent == IF pip_output = NoInode THEN <<>> ELSE files[pip_output]

\* a line pip prints in an invocation of a run: "std" for lines that name
\* pip, setuptools or wheel
PipLine(k) ==
    IF k = 0 THEN [text |-> <<"Requirement already satisfied: pip">>, std |-> TRUE]
    ELSE [text |-> <<"Collecting ", InstallDeps[k].package_name>>, std |-> FALSE]

\* POST /scripts/{id}/install-dependencies: the task is queued
PostInstall ==
    /\ Len(installs) < MaxInstalls
    /\ installs' = Append(installs, NewInstall)
    /\ UNCHANGED <<insFrame, scripts, venvs, requirements, site_packages, files,
                   pip_output, markers, tail>>

\* the task has loaded the script: it removes the markers and the log of
\* earlier runs, writes requirements.txt, creates the virtualenv and starts
\* the first pip invocation
TaskPrepare(n) ==
    /\ installs[n].pc = "start"
    /\ markers' = [pip_finished |-> FALSE, pip_success |-> FALSE]
    /\ pip_output' = NoInode
    /\ requirements' = [k \in DOMAIN scripts[1].dependencies |->
                          TaskRequirement(scripts[1].dependencies[k])]
    /\ venvs' = venvs \cup {1}
    /\ installs' = [installs EXCEPT ![n].pc = "pip"]
    /\ UNCHANGED <<insFrame, scripts, site_packages, files, tail>>

\* the same, with EnvBuilder.create raising: the finally block touches
\* pip_finished
TaskPrepareFails(n) ==
    /\ installs[n].pc = "start"
    /\ 1 \notin venvs
    /\ markers' = [pip_finished |-> TRUE, pip_success |-> FALSE]
    /\ pip_output' = NoInode
    /\ requirements' = [k \in DOMAIN scripts[1].dependencies |->
                          TaskRequirement(scripts[1].dependencies[k])]
    /\ installs' = [installs EXCEPT ![n].pc = "done"]
    /\ UNCHANGED <<insFrame, scripts, venvs, site_packages, files, tail>>

\* _run_pip: "if output_file.exists(): output_file.unlink()"
RunPipUnlinks(file) == NoInode

\* write_output: a line of pip is appended to pip_output.txt, which open(...,
\* 'ab') creates when the name does not exist
PipPrints(n) ==
    /\ installs[n].pc = "pip"
    /\ installs[n].lines < MaxPipLines
    /\ LET line == PipLine(installs[n].invocation) IN
         /\ IF pip_output = NoInode
            THEN /\ files' = Append(files, <<line>>)
                 /\ pip_output' = Len(files) + 1
            ELSE /\ files' = [files EXCEPT ![pip_output] = Append(@, line)]
                 /\ pip_output' = pip_output
         /\ installs' = [installs EXCEPT ![n].lines = @ + 1,
                                         ![n].out = Append(@, line)]
    /\ UNCHANGED <<insFrame, scripts, venvs, requirements, site_packages,
                   markers, tail>>

\* pip exits with code 0 and the task goes on: to the _run_pip of the next
\* dependency, which unlinks the log first, or to the versions
PipSucceeds(n) ==
    /\ installs[n].pc = "pip"
    /\ LET k == installs[n].invocation
           deps == scripts[1].dependencies
       IN  /\ site_packages' =
                IF k = 0 THEN site_packages
                ELSE Installed(site_packages, <<TaskRequirement(deps[k])>>, "1")
           /\ IF k < Len(deps)
              THEN /\ pip_output' = RunPipUnlinks(pip_output)
                   /\ installs' = [installs EXCEPT ![n].invocation = k + 1,
                                                   ![n].lines = 0]
              ELSE /\ pip_output' = pip_output
                   /\ installs' = [installs EXCEPT ![n].pc = "installed"]
    /\ UNCHANGED <<insFrame, scripts, venvs, requirements, files, markers, tail>>

\* pip exits with another code: _run_pip raises, the finally block of the
\* task touches pip_finished
PipFails(n) ==
    /\ installs[n].pc = "pip"
    /\ markers' = [markers EXCEPT !.pip_finished = TRUE]
    /\ installs' = [installs EXCEPT ![n].pc = "done"]
    /\ UNCHANGED <<insFrame, scripts, venvs, requirements, site_packages, files,
                   pip_output, tail>>

\* the versions are committed; pip_success and then pip_finished are touched
TaskCommits(n) ==
    /\ installs[n].pc = "installed"
    /\ scripts' = [scripts EXCEPT ![1].dependencies =
                     TaskVersions(@, site_packages)]
    /\ markers' = [pip_finished |-> TRUE, pip_success |-> TRUE]
    /\ installs' = [installs EXCEPT ![n].pc = "done", ![n].ok = TRUE]
    /\ UNCHANGED <<insFrame, venvs, requirements, site_packages, files,
                   pip_output, tail>>

\* a run of the script ends: cleanup(remove_environment=False) removes the
\* status files
RunCleanup ==
    /\ markers # [pip_finished |-> FALSE, pip_success |-> FALSE]
    /\ markers' = [pip_finished |-> FALSE, pip_success |-> FALSE]
    /\ UNCHANGED <<insFrame, scripts, venvs, requirements, site_packages, files,
                   pip_output, installs, tail>>

\* ------------------------------------------------ dependency websocket
ConnectedInstall == <<"Connected to dependency installation stream...">>
InstallFailedMsg == <<"Error: Dependency installation failed">>
NoOutputMsg == <<"Error: Output file not created within timeout">>
InstallFinishedMsg == <<"Installation finished.">>

\* the client connects
TailConnect ==
    /\ tail.pc = "none"
    /\ tail' = [tail EXCEPT !.pc = "wait", !.sent = <<ConnectedInstall>>,
                            !.since = Len(installs)]
    /\ UNCHANGED <<insFrame, scripts, venvs, requirements, site_packages, files,
                   pip_output, markers, installs>>

\* one turn of "Wait for output file to be created", and the open that
\* follows the loop
TailWait ==
    /\ tail.pc = "wait"
    /\ tail' =
         IF pip_output # NoInode
         THEN [tail EXCEPT !.pc = "read", !.file = pip_output]
         ELSE IF markers.pip_finished /\ ~markers.pip_success
         THEN [tail EXCEPT !.pc = "closed", !.sent = Append(@, InstallFailedMsg)]
         ELSE tail
    /\ tail' # tail
    /\ UNCHANGED <<insFrame, scripts, venvs, requirements, site_packages, files,
                   pip_output, markers, installs>>

\* 30 seconds have passed without the file
TailTimeout ==
    /\ tail.pc = "wait"
    /\ pip_output = NoInode
    /\ tail' = [tail EXCEPT !.pc = "closed", !.sent = Append(@, NoOutputMsg)]
    /\ UNCHANGED <<insFrame, scripts, venvs, requirements, site_packages, files,
                   pip_output, markers, installs>>

\* the messages the handler sends for the lines it read: none for a line
\* that names a standard package, none for a line it has sent before
RECURSIVE SendLines(_, _)
SendLines(sent, lines) ==
    IF lines = <<>> THEN sent
    ELSE LET clean_line == Head(lines).text IN
         IF ~Head(lines).std /\ clean_line \notin RangeOf(sent)
         THEN SendLines(Append(sent, clean_line), Tail(lines))
         ELSE SendLines(sent, Tail(lines))

\* one turn of the read loop on the file the handler has open: the new
\* lines are sent, then the markers are looked at
TailRead ==
    /\ tail.pc = "read"
    /\ LET content == files[tail.file]
           lines == SubSeq(content, tail.last_position + 1, Len(content))
           sent == SendLines(tail.sent, lines)
           status == IF markers.pip_success THEN "SUCCESS" ELSE "FAILURE"
       IN  tail' =
             IF markers.pip_finished
             THEN [tail EXCEPT !.pc = "closed", !.last_position = Len(content),
                     !.sent = sent \o <<StatusMsg(status), InstallFinishedMsg>>]
             ELSE [tail EXCEPT !.last_position = Len(content), !.sent = sent]
    /\ tail' # tail
    /\ UNCHANGED <<insFrame, scripts, venvs, requirements, site_packages, files,
                   pip_output, markers, installs>>

NextInstall ==
    \/ PostInstall
    \/ \E n \in DOMAIN installs : TaskPrepare(n)
    \/ \E n \in DOMAIN installs : TaskPrepareFails(n)
    \/ \E n \in DOMAIN installs : PipPrints(n)
    \/ \E n \in DOMAIN installs : PipSucceeds(n)
    \/ \E n \in DOMAIN installs : PipFails(n)
    \/ \E n \in DOMAIN installs : TaskCommits(n)
    \/ RunCleanup
    \/ TailConnect \/ TailWait \/ TailTimeout \/ TailRead

SpecInstall == InitInstall /\ [][NextInstall]_vars

\* ====================================================================
\* Claims
\* ====================================================================

UnterminatedOf(s) ==
    {i \in Ids : executions[i].script = s /\ executions[i].status \in Unterminated}

\* C1: at every instant and for every script at most one Execution of that
\* script is PENDING or RUNNING, under any interleaving of manual run
\* requests and cron fires.
C1_AtMostOneUnterminated ==
    \A s \in Scripts : Cardinality(UnterminatedOf(s)) <= 1

\* a step in which execute_script inserts its new PENDING row
ManualInsert ==
    /\ Len(executions') = Len(executions) + 1
    /\ task'[Len(task')].kind = "manual"

\* C2: when run(script_id) is called while a prior Execution of the script is
\* PENDING or RUNNING, that Execution is marked FAILURE with error_message
\* 'Execution interrupted by new execution request' and completed_at set
\* before the new PENDING Execution is inserted.
C2_PriorMarkedBeforeInsert ==
    [][ManualInsert =>
          \A i \in Ids :
              (/\ executions[i].script = executions'[Len(executions')].script
               /\ executions[i].status \in Unterminated)
              => (/\ executions'[i].status = "FAILURE"
                  /\ executions'[i].error = ErrInterrupted
                  /\ executions'[i].completed)]_vars

IsInterrupted(e) == e.status = "FAILURE" /\ e.error = ErrInterrupted

\* C3: an Execution interrupted by a second run(s) keeps, until every task has
\* quiesced, the status FAILURE with error_message 'Execution interrupted by
\* new execution request': once it is marked so, no later step changes it.
C3_InterruptedIsFinal ==
    [][\A i \in Ids : IsInterrupted(executions[i]) => IsInterrupted(executions'[i])]_vars

\* C4: every run(s) request creates exactly one Execution row (none is
\* answered without one), every cron fire at most one, and no step creates
\* more than one row.
C4_OneRowPerRequest ==
    [][/\ rejected' = rejected
       /\ Len(executions') \in {Len(executions), Len(executions) + 1}]_vars

\* C5: in every reachable state and for every Execution, completed_at is set
\* if and only if status is SUCCESS or FAILURE.
C5_CompletedIffTerminal ==
    \A i \in Ids : executions[i].completed <=> executions[i].status \in Terminal

\* C5 witness: an Execution interrupted by a new run stands beside the
\* Execution of that run, which its background task has moved to RUNNING.
C5_Witness ==
    \E i, j \in Ids :
        /\ IsInterrupted(executions[i]) /\ executions[i].completed
        /\ task[j].kind = "manual" /\ executions[j].status = "RUNNING"
        /\ ~executions[j].completed

AllowedTransitions ==
    {<<"PENDING", "RUNNING">>, <<"RUNNING", "SUCCESS">>,
     <<"RUNNING", "FAILURE">>, <<"PENDING", "FAILURE">>}

\* C6: every Execution is inserted with status PENDING, and the only status
\* transitions that ever occur are PENDING->RUNNING, RUNNING->SUCCESS,
\* RUNNING->FAILURE and PENDING->FAILURE.
C6_Lifecycle ==
    [][\A i \in DOMAIN executions' :
          IF i \in Ids
          THEN \/ executions'[i].status = executions[i].status
               \/ <<executions[i].status, executions'[i].status>> \in AllowedTransitions
          ELSE executions'[i].status = "PENDING"]_vars

\* C7: after start-up on a store holding Executions a prior process left
\* PENDING or RUNNING, none of them is PENDING or RUNNING any more, and the
\* only change such an Execution ever undergoes is the recovery marking:
\* FAILURE, 'Execution interrupted by server restart', completed_at set.
C7_CrashRecoveryClosure ==
    /\ [](RecoveryDone =>
            \A i \in Ids : task[i].kind = "prior" =>
                executions[i].status \notin Unterminated)
    /\ [][\A i \in Ids :
            (task[i].kind = "prior" /\ executions[i].status \in Unterminated)
            => \/ executions'[i] = executions[i]
               \/ /\ executions'[i].status = "FAILURE"
                  /\ executions'[i].error = ErrRestart
                  /\ executions'[i].completed]_vars

\* C7 witness: start-up has finished and recovery has marked a prior row.
C7_Witness ==
    /\ phase = "up"
    /\ \E i \in Ids : /\ task[i].kind = "prior"
                      /\ executions[i].status = "FAILURE"
                      /\ executions[i].error = ErrRestart
                      /\ executions[i].completed

\* C8: the recovery scan is committed before the scheduler accepts its first
\* tick: the scheduler runs, and an Execution of this process exists, only
\* after recovery; and no Execution created by this process carries the
\* recovery marking.
C8_RecoveryBeforeFirstTick ==
    /\ schedulerRunning => RecoveryDone
    /\ \A i \in Ids : task[i].kind # "prior" =>
           RecoveryDone /\ executions[i].error # ErrRestart

\* C8 witness: a cron fire has created an Execution after a recovery that
\* marked a stale one.
C8_Witness ==
    \E i, j \in Ids :
        /\ Scheduled(i)
        /\ task[j].kind = "prior" /\ executions[j].error = ErrRestart

\* C9: stop() marks every Execution still PENDING or RUNNING with the policy
\* of crash recovery (FAILURE, 'Execution interrupted by server restart',
\* completed_at set), and once shutdown has completed no Execution is
\* PENDING or RUNNING.
C9_ShutdownPolicy ==
    /\ [][(phase = "up" /\ phase' = "marked") =>
            \A i \in Ids : executions[i].status \in Unterminated =>
                /\ executions'[i].status = "FAILURE"
                /\ executions'[i].error = ErrRestart
                /\ executions'[i].completed]_vars
    /\ [](phase = "down" =>
            \A i \in Ids : executions[i].status \notin Unterminated)

\* C9, second half alone: once shutdown has completed no Execution is
\* PENDING or RUNNING.
C9_NoneUnterminatedAfterShutdown ==
    phase = "down" => \A i \in Ids : executions[i].status \notin Unterminated

\* C10: for every Execution whose child process exited and whose task has
\* ended, exit code 0 gives status SUCCESS and exit code n # 0 gives status
\* FAILURE with error_message 'Script exited with return code n'.
C10_ExitCodeDecidesStatus ==
    \A i \in Ids :
        (task[i].pc = "done" /\ task[i].exit # NoExit) =>
            IF task[i].exit = 0
            THEN executions[i].status = "SUCCESS"
            ELSE /\ executions[i].status = "FAILURE"
                 /\ executions[i].error = ErrExit(task[i].exit)

\* the error_message the timeout scenario expects
TimedOutMessage ==
    [msg |-> "Script execution timed out after <n> seconds", arg |-> MaxExecutionTime]

\* C11: an Execution whose child ran longer than max_execution_time ends
\* FAILURE with error_message 'Script execution timed out after N seconds'
\* (N = max_execution_time), and its child process no longer exists.
C11_TimeoutFailure ==
    \A i \in Ids :
        task[i].end = "timeout" =>
            /\ executions[i].status = "FAILURE"
            /\ executions[i].error = TimedOutMessage
            /\ task[i].child = "gone"

\* C13: no Execution goes from PENDING to RUNNING while a declared
\* dependency of its script has no installed_version.
C13_CheckPrecedesRunning ==
    [][\A i \in Ids :
          (executions[i].status = "PENDING" /\ executions'[i].status = "RUNNING")
          => ~uninstalled[executions[i].script]]_vars

\* C14: a run that reached the dependency check while the script had
\* uninstalled dependencies ends FAILURE with error_message 'Cannot execute
\* script with uninstalled dependencies' and never had a child process; and
\* no child process is launched in a step that starts with the script's
\* dependencies uninstalled.
C14_UninstalledNeverLaunched ==
    /\ [](\A i \in Ids :
            task[i].end = "deps" =>
                /\ executions[i].status = "FAILURE"
                /\ executions[i].error = ErrUninstalled
                /\ task[i].child = "none")
    /\ [][\A i \in Ids :
            (task[i].child = "none" /\ task'[i].child = "alive")
            => ~uninstalled[executions[i].script]]_vars

\* C14 witness: a manual run was moved to RUNNING, failed the dependency
\* check, and stands beside a scheduled run that failed it too.
C14_Witness ==
    \E i, j \in Ids :
        /\ task[i].kind = "manual" /\ task[i].end = "deps"
        /\ task[i].pc = "done" /\ executions[i].error = ErrUninstalled
        /\ Scheduled(j) /\ task[j].end = "deps"

\* C15: an Execution whose environment set-up failed, manual or scheduled,
\* is FAILURE with error_message 'Failed to set up script environment:
\* <reason>' and completed_at set, and never had a child process.
C15_SetupFailure ==
    \A i \in Ids :
        task[i].end = "setup" =>
            /\ executions[i].status = "FAILURE"
            /\ executions[i].error = ErrSetupManual
            /\ executions[i].completed
            /\ task[i].child = "none"

\* C16: an Execution whose coordinator task was cancelled while it ran, and
\* has ended, is FAILURE with error_message 'Execution cancelled', and its
\* child process is not alive.
C16_CancelledFailure ==
    \A i \in Ids :
        (task[i].end = "cancelled" /\ task[i].pc \in {"done", "dead"}) =>
            /\ executions[i].status = "FAILURE"
            /\ executions[i].error = ErrCancelled
            /\ task[i].child # "alive"

ChildrenAlive(s) ==
    {i \in Ids : executions[i].script = s /\ task[i].child = "alive"}

\* a step in which the run of execution i comes out of setup_environment,
\* which writes script.py and reconciles the runtime
SetupEnvironmentReturns(i) ==
    /\ task[i].pc \in {"handler_setup", "setup"}
    /\ task'[i].pc \in {"exec", "child", "done"}

\* C17: at no instant are two child processes of the same script alive, and
\* no run comes out of setup_environment while the child of another
\* Execution of the same script is alive.
C17_NoConcurrentChildren ==
    /\ [](\A s \in Scripts : Cardinality(ChildrenAlive(s)) <= 1)
    /\ [][\A i \in Ids :
            SetupEnvironmentReturns(i) =>
                ChildrenAlive(executions[i].script) \ {i} = {}]_vars

\* C12: once the coordinator has committed a terminal status, log_output is
\* set and equals the contents of the run's output file; a child that
\* printed only 'hello' and exited 0 gives log_output "hello\n".
C12_LogOutputIsFile ==
    (task[Run].pc \in {"stored", "done"} /\ executions[Run].status \in Terminal) =>
        /\ log_output = Joined(output_file.content)
        /\ (/\ task[Run].exit = 0
            /\ output_file.content = Header \o StreamLine(FALSE, "hello"))
           => log_output = Joined(StreamLine(FALSE, "hello"))

\* subscribers whose read_output started while the run was unterminated and
\* ended by itself
DrainedReaders ==
    {r \in Subscribers : /\ readers[r].pc = "closed" /\ readers[r].live
                         /\ readers[r].end = "exhausted"}

\* C18: a subscriber whose read_output started while the run was PENDING or
\* RUNNING and ran until the generator ended has been yielded exactly the
\* text of the output file, from offset 0 to its final end.
C18_TailFromStartDrains ==
    \A r \in DrainedReaders : readers[r].got = output_file.content

FinishedMsg == <<"Execution finished.">>

\* subscribers that were live and whose handler ended the subscription
EndedReaders ==
    {r \in Subscribers : /\ readers[r].pc = "closed" /\ readers[r].live
                         /\ readers[r].end \in {"exhausted", "break"}}

\* C19: a live subscriber whose subscription the handler has ended was sent
\* every line of the output file, then the line 'STATUS: <final status>',
\* then 'Execution finished.' as its last message.
C19_TailThenStatusThenMarker ==
    \A r \in EndedReaders :
        LET sent == readers[r].sent
            n == Len(sent)
            lines == SplitLines(output_file.content)
        IN  /\ n >= 2
            /\ sent[n] = FinishedMsg
            /\ sent[n - 1] = StatusMsg(executions[Run].status)
            /\ \E f \in [1..Len(lines) -> 1..n] :
                 /\ \A k \in 1..Len(lines) :
                      sent[f[k]] \in {lines[k], Rstrip(lines[k])}
                 /\ \A k \in 1..Len(lines) : f[k] < n - 1
                 /\ \A j, k \in 1..Len(lines) : j < k => f[j] < f[k]

\* C20: no step of a subscriber changes the Execution, its coordinator, the
\* strings collected for log_output, log_output or the output file; no step
\* changes the subscription of more than one subscriber; and until the run
\* is done its coordinator can take its next step, whatever state the
\* subscribers are in.
C20_SubscribersDoNotInterfere ==
    /\ [][readers' # readers =>
            /\ UNCHANGED <<executions, task, output_lines, log_output, output_file>>
            /\ \A r, q \in Subscribers :
                 (readers'[r] # readers[r] /\ readers'[q] # readers[q]) => r = q]_vars
    /\ [](task[Run].pc # "done" => ENABLED WriterNext)

\* C20 witness: the run has ended with its result stored while one
\* subscriber has been yielded text and stalls before its next read, and the
\* other has disconnected.
C20_Witness ==
    /\ task[Run].pc = "done" /\ log_output.set
    /\ \E r, q \in Subscribers :
         /\ readers[r].pc \in {"poll", "yield", "final"} /\ readers[r].got # <<>>
         /\ readers[q].end = "disconnect"

\* C21: a step registers a job for a schedule, at start-up or by add_job,
\* only if after it the schedule's script is active and has no uninstalled
\* dependencies.
C21_RegisterOnlyRunnable ==
    [][\A sch \in Schedules :
          (jobs'[sch] # jobs[sch] /\ jobs'[sch] # "none")
          => /\ active'[ScriptOf(sch)]
             /\ ~uninstalled'[ScriptOf(sch)]]_vars

\* C22: a step in which a fired job finds its script with uninstalled
\* dependencies leaves a FAILURE Execution without a child process and
\* removes the job of its schedule.
C22_FireOnUninstalled ==
    [][\A i \in DOMAIN task' :
          (/\ task'[i].kind \in {"start_job", "runtime_job"}
           /\ task'[i].end = "deps"
           /\ (i \in Ids => task[i].end # "deps"))
          => /\ executions'[i].status = "FAILURE"
             /\ task'[i].child = "none"
             /\ jobs'[executions'[i].schedule] = "none"]_vars

\* C23: a restart with a schedule whose cron expression does not parse
\* still starts the scheduler and adds the job of every schedule of an
\* active script whose expression parses.
C23_BadCronSkipped ==
    [][Restart =>
          /\ schedulerRunning'
          /\ \A sch \in RowIds(schedules) :
               (/\ scripts[schedules[sch].script_id].is_active
                /\ FromCrontab(schedules[sch].cron_expression))
               => jobs'[sch] # "none"]_vars

\* C24: in every reachable job table, removing the job of a schedule, once
\* or twice, registered or not, raises no error; the second removal changes
\* nothing, and no removal changes the job of another schedule.
C24_RemoveIdempotent ==
    \A sch \in Schedules :
        LET once == RemoveJobCall(jobs, sch)
            twice == RemoveJobCall(once.jobs, sch)
        IN  /\ once.error = "none"
            /\ twice.error = "none"
            /\ twice.jobs = once.jobs
            /\ \A other \in Schedules \ {sch} : once.jobs[other] = jobs[other]

\* one schedule has a job to remove and the other never had one
C24_Witness ==
    /\ phase = "up"
    /\ \E a, b \in Schedules :
         /\ jobs[a] # "none" /\ Exists(schedules, a)
         /\ jobs[b] = "none" /\ ~Exists(schedules, b)

\* every Execution references an existing Script and no missing Schedule,
\* and every Schedule an existing Script
ReferencesHold ==
    /\ \A i \in DOMAIN executions :
         /\ Exists(scripts, executions[i].script)
         /\ executions[i].schedule # NoSchedule
              => Exists(schedules, executions[i].schedule)
    /\ \A sch \in RowIds(schedules) : Exists(scripts, schedules[sch].script_id)

\* C25: references hold in every reachable state; deleting a Script
\* succeeds and removes its Executions and Schedules with it; deleting a
\* Schedule succeeds and keeps every Execution, those it triggered with
\* schedule_id nulled.
C25_ReferentialIntegrity ==
    /\ []ReferencesHold
    /\ [][/\ \A id \in RowIds(scripts) :
               DeleteScript(id) =>
                 /\ response'.status = 200
                 /\ ~Exists(scripts', id)
                 /\ \A i \in DOMAIN executions' : executions'[i].script # id
                 /\ \A sch \in RowIds(schedules') : schedules'[sch].script_id # id
          /\ \A sch \in RowIds(schedules) :
               DeleteSchedule(sch) =>
                 /\ response'.status = 200
                 /\ ~Exists(schedules', sch)
                 /\ executions' =
                      [i \in DOMAIN executions |->
                         IF executions[i].schedule = sch
                         THEN [executions[i] EXCEPT !.schedule = NoSchedule]
                         ELSE executions[i]]]_vars

\* a Schedule was deleted and the Execution it had triggered is still stored
C25_Witness ==
    /\ Len(executions) = 1
    /\ executions[1].status # "FAILURE"
    /\ executions[1].schedule = NoSchedule
    /\ Exists(scripts, executions[1].script)

\* the dependency list of a row is the requested one
SameDependencies(rows, deps) ==
    /\ DOMAIN rows = DOMAIN deps
    /\ \A k \in DOMAIN deps :
         /\ rows[k].package_name = deps[k].package_name
         /\ rows[k].version_spec = deps[k].version_spec

C27_UniqueNames ==
    /\ [](\A i, j \in RowIds(scripts) : scripts[i].name = scripts[j].name => i = j)
    /\ [][/\ \A b \in CreateBodies :
               (NameTaken(b.name, {}) /\ PostScript(b)) =>
                 /\ response'.status >= 400
                 /\ UNCHANGED <<scripts, tags, schedules, jobs>>
          /\ \A id \in RowIds(scripts), b \in UpdateBodies :
               (/\ b.name # None
                /\ NameTaken(b.name[1], {id})
                /\ PutScript(id, b)) =>
                 /\ response'.status >= 400
                 /\ UNCHANGED <<scripts, tags, schedules, jobs>>]_vars

\* C28: the cleanup of an earlier Execution leaves the output file of the
\* run in place, and a run whose child exited with code 0 and whose
\* coordinator has stored its result is SUCCESS.
C28_EarlierCleanupSpares ==
    /\ [][\A i \in Ids \ {Run} :
            Cleanup(i) => output_file'.exists = output_file.exists]_vars
    /\ []((/\ task[Run].pc \in {"stored", "done"}
           /\ task[Run].exit = 0)
          => executions[Run].status = "SUCCESS")

\* C29: once the coordinator of the run has finished, whatever the outcome,
\* the output file of the run is no longer in the script's directory.
C29_OutputRemoved ==
    task[Run].pc = "done" => ~output_file.exists

\* C30: while the child of the run is alive its output file exists.
C30_FileWhileChildRuns ==
    task[Run].child = "alive" => output_file.exists
\* the lines of the output file after the header
FileLines == Tail(SplitLines(output_file.content))

IsFooter(line) == line[1] = "Error: Script exited with return code "

\* the lines of the file that came from a stream, as the child printed them
FromStream(st) ==
    SelectSeq(FileLines,
              LAMBDA line : ~IsFooter(line) /\ ((line[1] = "ERROR: ") <=> (st = "stderr")))

\* the lines the handler of a stream has taken out of its pipe, as
\* _stream_generator is to write them
ReadSoFar(st) ==
    [k \in 1..(Len(printed[st]) - Len(pipes[st])) |->
        StreamLine(st = "stderr", printed[st][k].text)]

\* C31: the lines of each stream are in the file as the child printed them
\* and in that order, those of stderr behind 'ERROR: '; the footer is in the
\* file only when the return code is not 0 and both streams are drained, it
\* is the last line, and nothing is written after it.
C31_StreamsThenFooter ==
    /\ [](\A st \in Streams : FromStream(st) = ReadSoFar(st))
    /\ [](\A k \in DOMAIN FileLines :
            IsFooter(FileLines[k]) =>
                /\ k = Len(FileLines)
                /\ task[1].exit # 0
                /\ \A st \in Streams : pipes[st] = <<>>)
    /\ [][(\E k \in DOMAIN FileLines : IsFooter(FileLines[k]))
            => output_file' = output_file]_vars
\* the manifest line the provisioner is to write for a dependency
ManifestLine(dep) ==
    LET name == Strip(dep.package_name) IN
    IF dep.version_spec = <<>> \/ dep.version_spec = <<"*">> THEN name
    ELSE IF \E op \in Comparisons \cup {<<"=", "=">>} : StartsWith(dep.version_spec, op)
    THEN name \o dep.version_spec
    ELSE name

\* C32: after a run of either provisioner requirements.txt holds, for each
\* dependency and up to surrounding blanks, the bare name for an empty or
\* '*' version_spec, the name followed by the spec for a spec that begins
\* with ==, >=, <=, >, < or ~=, and the bare name for any other spec; and
\* both serializers give the same line for every dependency.
C32_ManifestLines ==
    LET deps == scripts[1].dependencies IN
    /\ installs # <<>> =>
         /\ DOMAIN requirements = DOMAIN deps
         /\ \A k \in DOMAIN deps : Strip(requirements[k]) = ManifestLine(deps[k])
    /\ \A k \in DOMAIN deps :
         Strip(SetupRequirement(deps[k])) = Strip(TaskRequirement(deps[k]))

\* a step in which a provisioner ends with success
ProvisioningSucceeds ==
    /\ Len(installs') = Len(installs) + 1
    /\ installs'[Len(installs')].ok

\* C33: when a run of either provisioner ends with success, every
\* dependency row of the script whose package name is, case aside, the name
\* of an installed package carries that package's version as its
\* installed_version.
C33_VersionsRecorded ==
    [][ProvisioningSucceeds =>
          \A k \in DOMAIN scripts'[1].dependencies :
              \A pkg \in site_packages' :
                  Lower(pkg.name) = Lower(scripts'[1].dependencies[k].package_name)
                  => scripts'[1].dependencies[k].installed_version = pkg.version]_vars

\* a step in which run n of the install task ends
InstallEnds(n) == installs[n].pc # "done" /\ installs'[n].pc = "done"

\* C34: when a run of the install task ends, pip_finished exists, and
\* pip_success exists if and only if that run succeeded; and pip_finished
\* is touched last: it appears only in the step that ends a run.
C34_MarkersAtEnd ==
    /\ [][\A n \in DOMAIN installs :
            InstallEnds(n) =>
                /\ markers'.pip_finished
                /\ markers'.pip_success <=> installs'[n].ok]_vars
    /\ [][(markers'.pip_finished /\ ~markers.pip_finished)
             => \E n \in DOMAIN installs : InstallEnds(n)]_vars

\* the STATUS lines among the messages a client was sent
StatusLines(sent) ==
    SelectSeq(sent, LAMBDA m : m \in {StatusMsg("SUCCESS"), StatusMsg("FAILURE")})

\* the runs of the install task a client is attached to: the last one
\* queued when it connected, and those queued after
Attached == {n \in DOMAIN installs : n >= tail.since}

\* C35: a client of the dependency websocket is sent at most one STATUS
\* line; unless the log never appeared within the time limit, the handler
\* ends with exactly one; and the line is STATUS: SUCCESS only if a run the
\* client is attached to has ended with success, STATUS: FAILURE only if
\* one has ended with failure.
C35_TailReportsItsRun ==
    /\ Len(StatusLines(tail.sent)) <= 1
    /\ (tail.pc = "closed" /\ tail.sent[Len(tail.sent)] # NoOutputMsg)
         => Len(StatusLines(tail.sent)) = 1
    /\ \A k \in DOMAIN tail.sent :
         /\ tail.sent[k] = StatusMsg("SUCCESS")
              => \E n \in Attached : installs[n].pc = "done" /\ installs[n].ok
         /\ tail.sent[k] = StatusMsg("FAILURE")
              => \E n \in Attached : installs[n].pc = "done" /\ ~installs[n].ok

\* the elements of a appear in b in the same order
RECURSIVE IsSubseq(_, _)
IsSubseq(a, b) ==
    IF a = <<>> THEN TRUE
    ELSE IF b = <<>> THEN FALSE
    ELSE IF Head(a) = Head(b) THEN IsSubseq(Tail(a), Tail(b))
    ELSE IsSubseq(a, Tail(b))

\* C36: no step in which a run goes from one pip invocation to the next
\* changes the text of pip_output.txt, and when a run ends pip_output.txt
\* holds every line its invocations printed, in order.
C36_LogKeepsAllOutput ==
    /\ [][\A n \in DOMAIN installs :
            (/\ installs[n].pc = "pip" /\ installs'[n].pc = "pip"
             /\ installs'[n].invocation # installs[n].invocation)
            => LogContent' = LogContent]_vars
    /\ [][\A n \in DOMAIN installs :
            InstallEnds(n) => IsSubseq(installs'[n].out, LogContent')]_vars

\* C37: once the status of an Execution is SUCCESS or FAILURE, no step
\* changes its status, its error_message or its completed_at.
C37_TerminalIsAbsorbing ==
    [][\A i \in Ids :
         executions[i].status \in Terminal =>
             /\ executions'[i].status = executions[i].status
             /\ executions'[i].error = executions[i].error
             /\ executions'[i].completed = executions[i].completed]_vars

C39_SameFireEitherWay ==
    \A i, j \in Ids :
        (/\ task[i].kind = "start_job" /\ task[j].kind = "runtime_job"
         /\ task[i].pc = task[j].pc /\ task[i].end = task[j].end
         /\ task[i].exit = task[j].exit)
        => /\ executions[i].status = executions[j].status
           /\ executions[i].error = executions[j].error
           /\ i \in active_executions <=> j \in active_executions

====
